---- MODULE Spec2Model ----
(***************************************************************************)
(* Model of the memory-scanning engine of a53_sla_ripper/sla_ripper.py:    *)
(*   FirehoseXMLHandler.parse_response   (response classification)         *)
(*   USBErrorRecovery                    (error-recovery policy)           *)
(*   SLAResponseLogger                   (diagnostics collector)           *)
(*   QFPROMExtractor._read_memory_pyusb / _read_memory_fallback /          *)
(*   _read_single_address / scan_memory  (transport and scan controller)   *)
(*                                                                         *)
(* Five specifications share the variables:                                *)
(*   Spec          one scan_memory invocation on a QFPROMExtractor         *)
(*   SpecRecovery  a USBErrorRecovery object driven call by call           *)
(*   SpecParse     parse_response applied to a bounded set of responses    *)
(*   SpecMain      the scan-memory action of main: the scan, then the      *)
(*                 diagnostics, the summary and the skip report            *)
(*   SpecLogger    an SLAResponseLogger driven call by call                *)
(*                                                                         *)
(* Bytes are integers 0..255, byte strings are sequences of bytes.         *)
(* Timestamps (datetime.now()) are not modelled.                           *)
(***************************************************************************)
EXTENDS Integers, Sequences, FiniteSets, TLC

VARIABLES
    \* QFPROMExtractor instance fields
    use_pyusb,           \* self.use_pyusb and self.device
    fallback,            \* self.edl_binary and self.loader
    enable_diagnostics,  \* self.enable_diagnostics (sla_logger exists iff TRUE)
    scan_results,        \* self.scan_results: insertion-ordered dict, as a sequence of [addr, value]
    error_recovery,      \* self.error_recovery: the USBErrorRecovery fields
    sla_logger,          \* self.sla_logger: the SLAResponseLogger histories
    \* the file system
    log_file,            \* lines of self.log_file (the results file)
    tmp_file,            \* content of /tmp/peek_<current_addr>.bin, or None when it does not exist
    \* scan_memory arguments and locals
    args,                \* [start_addr, end_addr, step] as passed
    pc,                  \* position in scan_memory / _read_single_address
    step,                \* local step after the step < 1 default
    current_addr,
    reads_completed,
    non_zero_count,
    data,                \* result of the read in progress (None or 4 bytes)
    result,              \* subprocess.run result of the helper in progress
    outcome,             \* Idle, Running, Completed, Interrupted, Aborted
    \* observation of the run (history)
    reads,               \* addresses passed to _read_single_address, in call order
    events,              \* what the read in progress did, in order
    returned,            \* [addr, data] of every read that returned
    \* driver of a stand-alone USBErrorRecovery (SpecRecovery)
    calls,               \* log of handle_error / reset_error_count calls
    \* parse_response (SpecParse)
    response,
    parsed,
    \* the diagnostics files and what main reports after the scan
    diag_file,           \* the document in sla_logger.log_file, NoDocument before the first save
    vault,               \* entries of sla_challenge_vault.hex
    summary,             \* what the last call returned when it was get_connection_summary
    main_out,            \* the calls main made after scan_memory returned, with their results
    \* checkSLAon.main (SpecProbe)
    probe_pc,            \* position in checkSLAon.main
    loader_exists,       \* os.path.exists(LOADER_PATH)
    read_returns,        \* what ep_in.read returns: the library's array, or bytes
    wire,                \* what went over the endpoints, in order: loader, nop, response
    nop_count,           \* the local count of the keep-alive loop
    probe_out,           \* how main ended
    printed              \* the lines main printed when it ended

instVars  == <<use_pyusb, fallback, enable_diagnostics>>
scanVars  == <<scan_results, log_file, tmp_file, args, pc, step, current_addr,
               reads_completed, non_zero_count, data, result, outcome>>
histVars  == <<reads, events, returned>>
parseVars == <<response, parsed>>
probeVars == <<probe_pc, loader_exists, read_returns, wire, nop_count, probe_out, printed>>
diagVars  == <<diag_file, vault, summary, main_out, probeVars>>
vars == <<instVars, scanVars, histVars, error_recovery, sla_logger, calls, parseVars, diagVars>>

(***************************************************************************)
(* Bounds of the model                                                     *)
(***************************************************************************)
MaxReads  == 3   \* addresses visited by one sweep
MaxCalls  == 6   \* calls made on a stand-alone USBErrorRecovery
MaxChunks == 2   \* chunks concatenated into a response for parse_response
MainReads == 1   \* addresses of the range main scans
MaxOver   == 1   \* entries logged beyond a window of save_diagnostics before the driver starts
MaxLogCalls == 3 \* log calls made by the driver of an SLAResponseLogger

(***************************************************************************)
(* Python values                                                           *)
(***************************************************************************)
None == <<-1>>                 \* distinct from every byte string

Min(a, b) == IF a < b THEN a ELSE b
Max(a, b) == IF a > b THEN a ELSE b

\* b[:n]
Slice(b, n) == SubSeq(b, 1, Min(n, Len(b)))

\* b[-n:]
Last(s, n) == SubSeq(s, Max(1, Len(s) - n + 1), Len(s))

HexDigit(n) ==
    <<"0", "1", "2", "3", "4", "5", "6", "7", "8", "9", "a", "b", "c", "d", "e", "f">>[n + 1]

\* f'{b:02x}'
Hex2(b) == HexDigit(b \div 16) \o HexDigit(b % 16)

\* f'{a:08x}' (addresses of the model are below 2^32)
Hex8(a) ==
    Hex2((a \div 16777216) % 256) \o Hex2((a \div 65536) % 256)
        \o Hex2((a \div 256) % 256) \o Hex2(a % 256)

RECURSIVE JoinHex(_)
\* ' '.join(f'{b:02x}' for b in data)
JoinHex(d) ==
    IF Len(d) = 0 THEN ""
    ELSE IF Len(d) = 1 THEN Hex2(d[1])
    ELSE Hex2(d[1]) \o " " \o JoinHex(Tail(d))

(***************************************************************************)
(* USBErrorRecovery                                                        *)
(***************************************************************************)
NoError == [address |-> -1, code |-> -1, count |-> 0]   \* self.last_error = None

\* USBErrorRecovery.__init__
USBErrorRecoveryInit ==
    [error_threshold   |-> 5,
     error_count       |-> 0,
     last_error        |-> NoError,
     last_good_address |-> -1,
     skip_regions      |-> <<>>]

\* ((address + 0x1000) // 0x1000) * 0x1000
NextBlock(address) == ((address + 4096) \div 4096) * 4096

\* mutant of DefaultResets: the default branch never resets the counter
DefaultResets_never(count) == FALSE

\* mutant of DefaultResets: the counter is reset one error later
DefaultResets_above3(count) == count > 3

\* the counter test of the default branch: if self.error_count >= 3
DefaultResets(count) == count >= 3

\* mutant of TimeoutRetries: the bound off by one
TimeoutRetries_offByOne(count) == count <= 3

\* the test of the timeout branch: if self.error_count < 3
TimeoutRetries(count) == count < 3

\* mutant of handle_error: the cooldown is made only when retry is returned
handle_error_cooldownOnRetry(er, address, error_code) ==
    LET count == er.error_count + 1
        er1 == [er EXCEPT !.error_count = count,
                          !.last_error = [address |-> address, code |-> error_code,
                                          count |-> count]]
    IN  IF error_code = 4 /\ count >= er1.error_threshold
        THEN LET next_addr == NextBlock(address)
             IN  [er |-> [er1 EXCEPT !.skip_regions =
                              Append(@, [start |-> address, end |-> next_addr,
                                         reason |-> "0x04_errors"])],
                  action |-> [action |-> "skip_to_next_block", next_address |-> next_addr,
                              skip_size |-> 4096, reason |-> "error_code_0x04"],
                  slept |-> 0]
        ELSE IF error_code = 255 /\ TimeoutRetries(count)
        THEN [er |-> er1,
              action |-> [action |-> "retry", next_address |-> address,
                          delay_ms |-> 2000, reason |-> "timeout_recovery"],
              slept |-> 2]
        ELSE [er |-> [er1 EXCEPT !.error_count = IF DefaultResets(count) THEN 0 ELSE count],
              action |-> [action |-> "skip_address", next_address |-> address + 4,
                          skip_size |-> 4, reason |-> "graceful_skip"],
              slept |-> 0]

\* USBErrorRecovery.handle_error: the new fields, the returned action and the
\* seconds slept inside the call
handle_error(er, address, error_code) ==
    LET count == er.error_count + 1
        er1 == [er EXCEPT !.error_count = count,
                          !.last_error = [address |-> address, code |-> error_code,
                                          count |-> count]]
        slept == IF error_code = 255 THEN 2 ELSE 0
    IN  IF error_code = 4 /\ count >= er1.error_threshold
        THEN LET next_addr == NextBlock(address)
             IN  [er |-> [er1 EXCEPT !.skip_regions =
                              Append(@, [start |-> address, end |-> next_addr,
                                         reason |-> "0x04_errors"])],
                  action |-> [action |-> "skip_to_next_block", next_address |-> next_addr,
                              skip_size |-> 4096, reason |-> "error_code_0x04"],
                  slept |-> slept]
        ELSE IF error_code = 255 /\ TimeoutRetries(count)
        THEN [er |-> er1,
              action |-> [action |-> "retry", next_address |-> address,
                          delay_ms |-> 2000, reason |-> "timeout_recovery"],
              slept |-> slept]
        ELSE [er |-> [er1 EXCEPT !.error_count = IF DefaultResets(count) THEN 0 ELSE count],
              action |-> [action |-> "skip_address", next_address |-> address + 4,
                          skip_size |-> 4, reason |-> "graceful_skip"],
              slept |-> slept]

\* mutant of reset_error_count: the whole error state is cleared
reset_error_count_clearsAll(er) == [er EXCEPT !.error_count = 0, !.last_error = NoError]

\* USBErrorRecovery.reset_error_count
reset_error_count(er) == [er EXCEPT !.error_count = 0]

\* USBErrorRecovery.get_skip_report: "No regions skipped." or one line per region
get_skip_report(er) ==
    IF er.skip_regions = <<>> THEN <<"No regions skipped.">>
    ELSE <<"Skipped Regions:">> \o
         [i \in 1..Len(er.skip_regions) |->
             "  0x" \o Hex8(er.skip_regions[i].start) \o " - 0x"
                 \o Hex8(er.skip_regions[i].end) \o " (" \o er.skip_regions[i].reason \o ")"]

(***************************************************************************)
(* SLAResponseLogger                                                       *)
(***************************************************************************)
RECURSIVE Hex(_)
\* bytes.hex()
Hex(b) == IF Len(b) = 0 THEN "" ELSE Hex2(b[1]) \o Hex(Tail(b))

\* SLAResponseLogger.__init__
SLAResponseLoggerInit ==
    [responses |-> <<>>, sla_challenges |-> <<>>, loader_responses |-> <<>>, errors |-> <<>>]

\* SLAResponseLogger.log_response
log_response(lg, source, response_type, bytes, status) ==
    [lg EXCEPT !.responses =
        Append(@, [source |-> source, type |-> response_type, status |-> status,
                   data_hex |-> Hex(bytes), data_size |-> Len(bytes)])]

\* SLAResponseLogger.log_error
log_error(lg, error_type, error_msg, context) ==
    [lg EXCEPT !.errors =
        Append(@, [type |-> error_type, message |-> error_msg, context |-> context])]

\* SLAResponseLogger.log_sla_challenge: the entry appended to self.sla_challenges
log_sla_challenge(lg, challenge_data) ==
    [lg EXCEPT !.sla_challenges =
        Append(@, [challenge_hex |-> Hex(challenge_data), size |-> Len(challenge_data)])]

\* what log_sla_challenge appends to sla_challenge_vault.hex: the "# <timestamp>"
\* line, the raw challenge and the blank separator
VaultEntry(challenge_data) == [header |-> "# timestamp\n", raw |-> challenge_data, separator |-> "\n\n"]

\* SLAResponseLogger.log_loader_response
log_loader_response(lg, loader_name, resp, success) ==
    [lg EXCEPT !.loader_responses =
        Append(@, [loader |-> loader_name, response |-> resp, success |-> success])]

\* the windows of save_diagnostics: self.responses[-100:] and self.errors[-50:]
LastResponses == 100
LastErrors    == 50

\* values of the diagnostics document: integers and lists
IntValue(n)  == [int |-> n]
ListValue(l) == [list |-> l]

\* d[k] = v on a dict kept as a sequence of [key, value] in insertion order
DictPut(d, k, v) ==
    IF \E i \in 1..Len(d) : d[i].key = k
    THEN [i \in 1..Len(d) |-> IF d[i].key = k THEN [key |-> k, value |-> v] ELSE d[i]]
    ELSE Append(d, [key |-> k, value |-> v])

RECURSIVE DictDisplay(_)
\* a dict display {k1: v1, k2: v2, ...}: the items are stored from left to right,
\* a key given twice keeps its last value
DictDisplay(items) ==
    IF items = <<>> THEN <<>>
    ELSE LET it == items[Len(items)]
         IN  DictPut(DictDisplay(SubSeq(items, 1, Len(items) - 1)), it.key, it.value)

\* d[k]
Get(d, k) == d[CHOOSE i \in 1..Len(d) : d[i].key = k].value

\* no document has been written
NoDocument == <<>>

\* SLAResponseLogger.save_diagnostics: the diagnostics dict handed to json.dump
\* (without its timestamp)
save_diagnostics(lg) ==
    DictDisplay(<<
        [key |-> "total_responses",      value |-> IntValue(Len(lg.responses))],
        [key |-> "sla_challenges_count", value |-> IntValue(Len(lg.sla_challenges))],
        [key |-> "loader_responses",     value |-> IntValue(Len(lg.loader_responses))],
        [key |-> "errors_count",         value |-> IntValue(Len(lg.errors))],
        [key |-> "responses",            value |-> ListValue(Last(lg.responses, LastResponses))],
        [key |-> "sla_challenges",       value |-> ListValue(lg.sla_challenges)],
        [key |-> "loader_responses",     value |-> ListValue(lg.loader_responses)],
        [key |-> "errors",               value |-> ListValue(Last(lg.errors, LastErrors))]>>)

\* mutant of Successes: every loader response counts as a success
Successes_all(lr) == Len(lr)

\* sum(1 for r in self.loader_responses if r['success'])
Successes(lr) == Cardinality({i \in 1..Len(lr) : lr[i].success})

\* f"{successes / max(attempts, 1) * 100:.1f}" in tenths of a percent: the
\* quotient rounded to the nearest tenth (below 16 attempts no quotient lies
\* halfway between two tenths)
SuccessRate(successes, attempts) ==
    (2000 * successes + Max(attempts, 1)) \div (2 * Max(attempts, 1))

\* no summary has been returned
NoSummary == [kind |-> "none"]

\* SLAResponseLogger.get_connection_summary: the figures of the text
get_connection_summary(lg) ==
    [total_responses  |-> Len(lg.responses),
     sla_challenges   |-> Len(lg.sla_challenges),
     loader_responses |-> Len(lg.loader_responses),
     errors           |-> Len(lg.errors),
     last_response    |-> IF lg.responses # <<>> THEN "timestamp" ELSE "None",
     last_error       |-> IF lg.errors # <<>> THEN lg.errors[Len(lg.errors)].type ELSE "None",
     success_rate     |-> SuccessRate(Successes(lg.loader_responses), Len(lg.loader_responses))]

(***************************************************************************)
(* FirehoseXMLHandler.parse_response                                       *)
(***************************************************************************)
ACK       == <<65, 67, 75>>                     \* "ACK"
NAK       == <<78, 65, 75>>                     \* "NAK"
ERROR     == <<69, 82, 82, 79, 82>>             \* "ERROR"
error     == <<101, 114, 114, 111, 114>>        \* "error"
LOGTAG    == <<60, 108, 111, 103, 32>>          \* "<log "
VALUEATTR == <<118, 97, 108, 117, 101, 61, 34>> \* 'value="'
QUOTE     == <<34>>                             \* '"'

\* response.decode('utf-8', errors='ignore') on responses made of ASCII bytes and
\* the byte 0xff, which is never valid UTF-8 and is dropped
Decode(bytes) == SelectSeq(bytes, LAMBDA b : b < 128)

\* pat in text
Contains(text, pat) ==
    \E i \in 1..(Len(text) - Len(pat) + 1) : SubSeq(text, i, i + Len(pat) - 1) = pat

\* positions where value="([^"]+)" matches
ValueMatches(text) ==
    {i \in 1..(Len(text) - Len(VALUEATTR) - 1) :
        /\ SubSeq(text, i, i + Len(VALUEATTR) - 1) = VALUEATTR
        /\ <<text[i + Len(VALUEATTR)]>> # QUOTE
        /\ \E j \in (i + Len(VALUEATTR) + 1)..Len(text) : <<text[j]>> = QUOTE}

\* re.search(r'value="([^"]+)"', text).group(1) of the leftmost match
ValueGroup(text) ==
    LET i == CHOOSE k \in ValueMatches(text) : \A m \in ValueMatches(text) : k <= m
        b == i + Len(VALUEATTR)
        e == CHOOSE j \in (b + 1)..Len(text) :
                 /\ <<text[j]>> = QUOTE
                 /\ \A m \in (b + 1)..(j - 1) : <<text[m]>> # QUOTE
    IN  SubSeq(text, b, e - 1)

NoText == [kind |-> "None"]
Msg(m) == [kind |-> "str", text |-> m]

\* mutant of ClassifyText: the NAK test comes before the ACK test
ClassifyText_nakFirst(text) ==
    IF Contains(text, NAK)
    THEN [status |-> "nak", error |-> Msg("Device NAK response")]
    ELSE IF Contains(text, ACK) THEN [status |-> "ack", error |-> NoText]
    ELSE IF Contains(text, ERROR) \/ Contains(text, error)
    THEN [status |-> "error",
          error |-> IF ValueMatches(text) # {}
                    THEN [kind |-> "match", text |-> ValueGroup(text)] ELSE NoText]
    ELSE IF Contains(text, LOGTAG) THEN [status |-> "log", error |-> NoText]
    ELSE [status |-> "unknown", error |-> NoText]

\* the status and error chosen by the if/elif chain on the decoded text
ClassifyText(text) ==
    IF Contains(text, ACK) THEN [status |-> "ack", error |-> NoText]
    ELSE IF Contains(text, NAK)
    THEN [status |-> "nak", error |-> Msg("Device NAK response")]
    ELSE IF Contains(text, ERROR) \/ Contains(text, error)
    THEN [status |-> "error",
          error |-> IF ValueMatches(text) # {}
                    THEN [kind |-> "match", text |-> ValueGroup(text)] ELSE NoText]
    ELSE IF Contains(text, LOGTAG) THEN [status |-> "log", error |-> NoText]
    ELSE [status |-> "unknown", error |-> NoText]

\* mutant of StartsWith04: the byte is looked for anywhere in the decoded text
StartsWith04_anywhere(bytes) == Contains(Decode(bytes), <<4>>)

\* response[0:1] == b'\x04'
StartsWith04(bytes) == Slice(bytes, 1) = <<4>>

\* FirehoseXMLHandler.parse_response
parse_response(bytes) ==
    LET text == Decode(bytes)
        c    == ClassifyText(text)
    IN  IF StartsWith04(bytes)
        THEN [raw |-> Hex(bytes), text |-> text, status |-> "error_code_0x04",
              error |-> Msg("Device returned error code 0x04 (Non-standard response)"),
              data |-> None]
        ELSE [raw |-> Hex(bytes), text |-> text, status |-> c.status,
              error |-> c.error, data |-> None]

(***************************************************************************)
(* QFPROMExtractor: constants and the inputs of the model                  *)
(***************************************************************************)
SCAN_START_ADDR == 7340032          \* 0x00700000
DEFAULT_STEP    == 4
NULL_PATTERN    == <<0, 0, 0, 0>>

\* scan_memory(start_addr, end_addr, step) calls of the model: an aligned range of
\* MaxReads addresses, a shorter range whose span is no multiple of its step, a
\* range of two addresses scanned with a step of 0, a range of one address
\* scanned with a negative step, and an empty range
Ranges ==
    {[start_addr |-> SCAN_START_ADDR, end_addr |-> SCAN_START_ADDR + 4 * MaxReads, step |-> 4],
     [start_addr |-> SCAN_START_ADDR, end_addr |-> SCAN_START_ADDR + 3 * (MaxReads - 1) - 1,
      step |-> 3],
     [start_addr |-> SCAN_START_ADDR, end_addr |-> SCAN_START_ADDR + 8, step |-> 0],
     [start_addr |-> SCAN_START_ADDR, end_addr |-> SCAN_START_ADDR + 3, step |-> -4],
     [start_addr |-> SCAN_START_ADDR + 4, end_addr |-> SCAN_START_ADDR + 4, step |-> 4]}

\* what device.read can deliver: a short frame, the null pattern, a data word,
\* a frame that starts with 0x04 and a frame longer than 4 bytes
NativeResponses ==
    {<<1, 2>>, NULL_PATTERN, <<1, 2, 3, 4>>, <<4, 0, 0, 0>>, <<171, 205, 0, 255, 9>>}

\* what the helper can leave in the temp file: nothing (None), a short file, the
\* null pattern, a word that starts with 0x04
HelperFiles == {None, <<7>>, NULL_PATTERN, <<4, 0, 0, 1>>}

InSeq(e, s) == \E i \in 1..Len(s) : s[i] = e

(***************************************************************************)
(* QFPROMExtractor._read_memory_pyusb, one operator per way device.write   *)
(* and device.read can end. Each gives the new error-recovery fields, the  *)
(* new logger, the returned data and the events of the attempt.            *)
(***************************************************************************)
\* mutant of IsError04: the first byte is not looked at
IsError04_never(bytes) == FALSE

\* the 0x04 test: len(response_bytes) > 0 and response_bytes[0] == 0x04
IsError04(bytes) == Len(bytes) > 0 /\ bytes[1] = 4

\* return response_bytes[:4] if len(response_bytes) >= 4 else None
Extract4(bytes) == IF Len(bytes) >= 4 THEN Slice(bytes, 4) ELSE None

\* mutant of NativeResponse: the counter is reset only when 4 bytes are returned
NativeResponse_resetOnData(er, lg, diag, address, bytes) ==
    LET lg1 == IF diag THEN log_response(lg, "pyusb", "peek_response", Slice(bytes, 16), "OK")
               ELSE lg
        ev1 == <<"read">> \o (IF diag THEN <<"log_response">> ELSE <<>>)
    IN  IF IsError04(bytes)
        THEN LET h == handle_error(er, address, 4)
             IN  [er |-> h.er,
                  lg |-> IF diag
                         THEN log_error(lg1, "usb_error_0x04",
                                        "Non-standard response at 0x" \o Hex8(address), h.action)
                         ELSE lg1,
                  data |-> None,
                  ev |-> ev1 \o <<"handle_error">> \o (IF diag THEN <<"log_error">> ELSE <<>>)]
        ELSE IF Len(bytes) >= 4
        THEN [er |-> reset_error_count(er), lg |-> lg1, data |-> Extract4(bytes),
              ev |-> ev1 \o <<"reset_error_count">>]
        ELSE [er |-> er, lg |-> lg1, data |-> None, ev |-> ev1]

\* device.read returned response_bytes
NativeResponse(er, lg, diag, address, bytes) ==
    LET lg1 == IF diag THEN log_response(lg, "pyusb", "peek_response", Slice(bytes, 16), "OK")
               ELSE lg
        ev1 == <<"read">> \o (IF diag THEN <<"log_response">> ELSE <<>>)
    IN  IF IsError04(bytes)
        THEN LET h == handle_error(er, address, 4)
             IN  [er |-> h.er,
                  lg |-> IF diag
                         THEN log_error(lg1, "usb_error_0x04",
                                        "Non-standard response at 0x" \o Hex8(address), h.action)
                         ELSE lg1,
                  data |-> None,
                  ev |-> ev1 \o <<"handle_error">> \o (IF diag THEN <<"log_error">> ELSE <<>>)]
        ELSE [er |-> reset_error_count(er), lg |-> lg1, data |-> Extract4(bytes),
              ev |-> ev1 \o <<"reset_error_count">>]

\* mutant of NativeTimeout: the recovery call is made only inside the
\* diagnostics branch
NativeTimeout_insideDiagnostics(er, lg, diag, address) ==
    LET h == handle_error(er, address, 255)
    IN  IF diag
        THEN [er |-> h.er,
              lg |-> log_error(lg, "usb_timeout", "Read timeout at 0x" \o Hex8(address),
                               h.action),
              data |-> None,
              ev |-> <<"read_timeout", "handle_error", "cooldown", "log_error">>]
        ELSE [er |-> er, lg |-> lg, data |-> None, ev |-> <<"read_timeout">>]

\* device.read raised usb.core.USBTimeoutError
NativeTimeout(er, lg, diag, address) ==
    LET h == handle_error(er, address, 255)
    IN  [er |-> h.er,
         lg |-> IF diag
                THEN log_error(lg, "usb_timeout", "Read timeout at 0x" \o Hex8(address), h.action)
                ELSE lg,
         data |-> None,
         ev |-> <<"read_timeout", "handle_error">>
                    \o (IF h.slept > 0 THEN <<"cooldown">> ELSE <<>>)
                    \o (IF diag THEN <<"log_error">> ELSE <<>>)]

\* device.write or device.read raised another exception (except Exception)
NativeException(er, lg, diag, address, where) ==
    [er |-> er,
     lg |-> IF diag
            THEN log_error(lg, "usb_exception", "USBError", [address |-> "0x" \o Hex8(address)])
            ELSE lg,
     data |-> None,
     ev |-> <<where>> \o (IF diag THEN <<"log_error">> ELSE <<>>)]

(***************************************************************************)
(* QFPROMExtractor.scan_memory, step by step                               *)
(***************************************************************************)
\* mutant of DictSet: a new key is inserted in front of the others
DictSet_front(d, k, v) == <<[addr |-> k, value |-> v]>> \o d

\* d[k] = v on an insertion-ordered dict
DictSet(d, k, v) ==
    IF \E i \in 1..Len(d) : d[i].addr = k
    THEN [i \in 1..Len(d) |-> IF d[i].addr = k THEN [addr |-> k, value |-> v] ELSE d[i]]
    ELSE Append(d, [addr |-> k, value |-> v])

Keys(d) == {d[i].addr : i \in 1..Len(d)}

\* mutant of NormalStep: a step below 1 becomes 1
NormalStep_one(s) == IF s < 1 THEN 1 ELSE s

\* if step < 1: step = 4
NormalStep(s) == IF s < 1 THEN DEFAULT_STEP ELSE s

\* if data is None or len(data) < 4
ReadFailed(d) == d = None \/ Len(d) < 4

\* mutant of IsNonZero: compared with a one-byte pattern
IsNonZero_oneByte(d) == d # <<0>>

\* data != self.NULL_PATTERN
IsNonZero(d) == d # NULL_PATTERN

\* mutant of HexValue: joined without the separator
HexValue_noSpace(d) == Hex(d)

\* hex_value = ' '.join(f'{b:02x}' for b in data)
HexValue(d) == JoinHex(d)

\* mutant of LogMsg: the line starts without the 0x prefix
LogMsg_noPrefix(address, hex_value) == Hex8(address) \o ": " \o hex_value

\* log_msg = f"0x{current_addr:08x}: {hex_value}"
LogMsg(address, hex_value) == "0x" \o Hex8(address) \o ": " \o hex_value

\* mutant of NextAddr: a failed address makes the sweep jump to the next 4 KiB block
NextAddr_skipsBlock(address, s) == NextBlock(address)

\* mutant of NextAddr: the address advances by the default step
NextAddr_fixed(address, s) == address + DEFAULT_STEP

\* current_addr += step
NextAddr(address, s) == address + s

\* positions inside the try block of scan_memory
InTry == {"loop", "read", "py_write", "py_sleep", "py_read", "fb_run", "fb_sleep",
          "fb_check", "fb_remove", "check", "append", "epilogue"}

\* scan_memory is called: lines 890-910, before the try block
ScanMemory ==
    /\ pc = "idle"
    /\ step' = NormalStep(args.step)
    /\ scan_results' = <<>>
    /\ reads_completed' = 0
    /\ non_zero_count' = 0
    /\ outcome' = "Running"
    /\ pc' = "prologue"
    /\ UNCHANGED <<instVars, diagVars, histVars, error_recovery, sla_logger, calls, parseVars,
                   log_file, tmp_file, args, current_addr, data, result>>

\* try: current_addr = start_addr
EnterTry ==
    /\ pc = "prologue"
    /\ current_addr' = args.start_addr
    /\ pc' = "loop"
    /\ UNCHANGED <<instVars, diagVars, histVars, error_recovery, sla_logger, calls, parseVars,
                   scan_results, log_file, tmp_file, args, step, reads_completed,
                   non_zero_count, data, result, outcome>>

\* while current_addr < end_addr: reads_completed += 1, then the call of
\* _read_single_address (whose temp file is a new path, not yet existing); the
\* loop exhausted leads to the "Scan complete" report
LoopTest ==
    /\ pc = "loop"
    /\ IF current_addr < args.end_addr
       THEN /\ reads_completed' = reads_completed + 1
            /\ reads' = Append(reads, current_addr)
            /\ events' = <<>>
            /\ tmp_file' = None
            /\ pc' = "read"
       ELSE /\ pc' = "epilogue"
            /\ UNCHANGED <<reads_completed, reads, events, tmp_file>>
    /\ UNCHANGED <<instVars, diagVars, returned, error_recovery, sla_logger, calls, parseVars,
                   scan_results, log_file, args, step, current_addr,
                   non_zero_count, data, result, outcome>>

\* mutant of AfterNative: no fallback after the native channel
AfterNative_never == "check"

\* where _read_single_address goes once the native channel gave no data:
\* _read_memory_fallback returns None at once unless edl_binary and loader are set
AfterNative == IF fallback THEN "fb_run" ELSE "check"

\* _read_single_address: if self.use_pyusb and self.device
ReadSingleAddress ==
    /\ pc = "read"
    /\ data' = None
    /\ IF use_pyusb
       THEN pc' = "py_write" /\ events' = <<"native">>
       ELSE pc' = AfterNative /\ events' = <<>>
    /\ UNCHANGED <<instVars, diagVars, reads, returned, error_recovery, sla_logger, calls, parseVars,
                   scan_results, log_file, tmp_file, args, step, current_addr,
                   reads_completed, non_zero_count, result, outcome>>

\* the native attempt ended with r = [er, lg, data, ev]: _read_single_address
\* returns the data or goes on to the fallback
NativeEnds(r) ==
    /\ error_recovery' = r.er
    /\ sla_logger' = r.lg
    /\ data' = r.data
    /\ IF r.data # None
       THEN pc' = "check" /\ events' = events \o r.ev
       ELSE /\ pc' = AfterNative
            /\ events' = events \o r.ev \o <<"native_failed">>
    /\ UNCHANGED <<instVars, diagVars, reads, returned, calls, parseVars, scan_results, log_file,
                   tmp_file, args, step, current_addr, reads_completed, non_zero_count,
                   result, outcome>>

\* self.device.write(FIREHOSE_BULK_OUT_EP, peek_cmd.encode()) succeeds
PyWrite ==
    /\ pc = "py_write"
    /\ pc' = "py_sleep"
    /\ events' = Append(events, "write")
    /\ UNCHANGED <<instVars, diagVars, reads, returned, error_recovery, sla_logger, calls, parseVars,
                   scan_results, log_file, tmp_file, args, step, current_addr,
                   reads_completed, non_zero_count, data, result, outcome>>

\* self.device.write raises
PyWriteFails ==
    /\ pc = "py_write"
    /\ NativeEnds(NativeException(error_recovery, sla_logger, enable_diagnostics,
                                  current_addr, "write_exception"))

\* mutant of PySleep: the receive is issued right after the send
PySleep_noDelay ==
    /\ pc = "py_sleep"
    /\ pc' = "py_read"
    /\ UNCHANGED <<instVars, diagVars, histVars, error_recovery, sla_logger, calls, parseVars,
                   scan_results, log_file, tmp_file, args, step, current_addr,
                   reads_completed, non_zero_count, data, result, outcome>>

\* time.sleep(self.PEEK_COMMAND_DELAY)
PySleep ==
    /\ pc = "py_sleep"
    /\ pc' = "py_read"
    /\ events' = Append(events, "delay")
    /\ UNCHANGED <<instVars, diagVars, reads, returned, error_recovery, sla_logger, calls, parseVars,
                   scan_results, log_file, tmp_file, args, step, current_addr,
                   reads_completed, non_zero_count, data, result, outcome>>

\* self.device.read returns a response
PyRead ==
    /\ pc = "py_read"
    /\ \E bytes \in NativeResponses :
           NativeEnds(NativeResponse(error_recovery, sla_logger, enable_diagnostics,
                                     current_addr, bytes))

\* self.device.read raises usb.core.USBTimeoutError
PyReadTimeout ==
    /\ pc = "py_read"
    /\ NativeEnds(NativeTimeout(error_recovery, sla_logger, enable_diagnostics, current_addr))

\* self.device.read raises another exception
PyReadFails ==
    /\ pc = "py_read"
    /\ NativeEnds(NativeException(error_recovery, sla_logger, enable_diagnostics,
                                  current_addr, "read_exception"))

(***************************************************************************)
(* QFPROMExtractor._read_memory_fallback                                   *)
(***************************************************************************)
\* what subprocess.run can return: the exit code and the temp file it leaves
HelperOutcomes ==
    {[returncode |-> 0, file |-> f] : f \in HelperFiles}
        \cup {[returncode |-> 1, file |-> None], [returncode |-> 1, file |-> <<4, 0, 0, 1>>]}

\* no subprocess.run result yet
NoResult == [returncode |-> -1]

\* result.returncode == 0 and os.path.exists(temp_file)
HelperOk(res, file) == res.returncode = 0 /\ file # None

\* return data if len(data) == 4 else None
Exactly4(d) == IF Len(d) = 4 THEN d ELSE None

\* result = subprocess.run(cmd, capture_output=True, timeout=10) returns
FbRun ==
    /\ pc = "fb_run"
    /\ \E o \in HelperOutcomes :
           /\ result' = [returncode |-> o.returncode]
           /\ tmp_file' = o.file
    /\ events' = events \o <<"secondary", "run">>
    /\ pc' = "fb_sleep"
    /\ UNCHANGED <<instVars, diagVars, reads, returned, error_recovery, sla_logger, calls, parseVars,
                   scan_results, log_file, args, step, current_addr, reads_completed,
                   non_zero_count, data, outcome>>

\* subprocess.run raises (TimeoutExpired after 10 s, or the helper cannot be
\* started): except Exception returns None
FbRunFails ==
    /\ pc = "fb_run"
    /\ events' = events \o <<"secondary", "run_exception">>
    /\ tmp_file' \in {None, <<7>>}
    /\ data' = None
    /\ pc' = "check"
    /\ UNCHANGED <<instVars, diagVars, reads, returned, error_recovery, sla_logger, calls, parseVars,
                   scan_results, log_file, args, step, current_addr, reads_completed,
                   non_zero_count, result, outcome>>

\* time.sleep(self.PEEK_COMMAND_DELAY) after the helper
FbSleep ==
    /\ pc = "fb_sleep"
    /\ events' = Append(events, "delay")
    /\ pc' = "fb_check"
    /\ UNCHANGED <<instVars, diagVars, reads, returned, error_recovery, sla_logger, calls, parseVars,
                   scan_results, log_file, tmp_file, args, step, current_addr,
                   reads_completed, non_zero_count, data, result, outcome>>

\* mutant of FbCheck: a failed helper read is reported to the error recovery
FbCheck_handlesError ==
    /\ pc = "fb_check"
    /\ IF HelperOk(result, tmp_file)
       THEN data' = Slice(tmp_file, 4) /\ pc' = "fb_remove"
                /\ UNCHANGED error_recovery
       ELSE data' = None /\ pc' = "check"
                /\ error_recovery' = handle_error(error_recovery, current_addr, 1).er
    /\ UNCHANGED <<instVars, diagVars, histVars, sla_logger, calls, parseVars,
                   scan_results, log_file, tmp_file, args, step, current_addr,
                   reads_completed, non_zero_count, result, outcome>>

\* if result.returncode == 0 and os.path.exists(temp_file): data = f.read(4)
FbCheck ==
    /\ pc = "fb_check"
    /\ IF HelperOk(result, tmp_file)
       THEN data' = Slice(tmp_file, 4) /\ pc' = "fb_remove"
       ELSE data' = None /\ pc' = "check"
    /\ UNCHANGED <<instVars, diagVars, histVars, error_recovery, sla_logger, calls, parseVars,
                   scan_results, log_file, tmp_file, args, step, current_addr,
                   reads_completed, non_zero_count, result, outcome>>

\* the statements after the try/except around os.remove
FbReturn(ev, file) ==
    /\ events' = Append(events, ev)
    /\ tmp_file' = file
    /\ data' = Exactly4(data)
    /\ pc' = "check"
    /\ UNCHANGED <<instVars, diagVars, reads, returned, error_recovery, sla_logger, calls, parseVars,
                   scan_results, log_file, args, step, current_addr, reads_completed,
                   non_zero_count, result, outcome>>

\* os.remove(temp_file) succeeds
FbRemove == pc = "fb_remove" /\ FbReturn("remove", None)

\* os.remove(temp_file) raises OSError: except: pass
FbRemoveFails == pc = "fb_remove" /\ FbReturn("remove_failed", tmp_file)

\* KeyboardInterrupt delivered inside try: os.remove(temp_file): the bare
\* except: pass catches it, the file is removed or not
FbRemoveInterrupted ==
    /\ pc = "fb_remove"
    /\ \E file \in {None, tmp_file} : FbReturn("interrupt_swallowed", file)

(***************************************************************************)
(* scan_memory: the body of the loop after the read, and the ways out      *)
(***************************************************************************)
\* _read_single_address returns data (its locals and the observation of the read
\* end here); the if/else on it. A non-zero word is stored and counted, then the
\* file is opened; anything else ends the iteration
Check ==
    /\ pc = "check"
    /\ returned' = Append(returned, [addr |-> current_addr, data |-> data])
    /\ events' = <<>>
    /\ result' = NoResult
    /\ IF ~ReadFailed(data) /\ IsNonZero(data)
       THEN /\ scan_results' = DictSet(scan_results, current_addr, HexValue(data))
            /\ non_zero_count' = non_zero_count + 1
            /\ pc' = "append"
            /\ UNCHANGED current_addr
       ELSE /\ current_addr' = NextAddr(current_addr, step)
            /\ pc' = "loop"
            /\ UNCHANGED <<scan_results, non_zero_count>>
    /\ UNCHANGED <<instVars, diagVars, reads, error_recovery, sla_logger, calls, parseVars,
                   log_file, tmp_file, args, step, reads_completed, data, outcome>>

\* with open(self.log_file, 'a') as f: f.write(f"{log_msg}\n"), then current_addr += step
AppendLine ==
    /\ pc = "append"
    /\ log_file' = Append(log_file, LogMsg(current_addr, HexValue(data)))
    /\ current_addr' = NextAddr(current_addr, step)
    /\ pc' = "loop"
    /\ UNCHANGED <<instVars, diagVars, histVars, error_recovery, sla_logger, calls, parseVars,
                   scan_results, tmp_file, args, step, reads_completed, non_zero_count,
                   data, result, outcome>>

\* scan_memory returns self.scan_results with the given outcome
Return(how) ==
    /\ outcome' = how
    /\ pc' = "done"
    /\ UNCHANGED <<instVars, diagVars, histVars, error_recovery, sla_logger, calls, parseVars,
                   scan_results, log_file, tmp_file, args, step, current_addr,
                   reads_completed, non_zero_count, data, result>>

\* open or write raises OSError: except Exception logs "Scan error" and returns
AppendFails == pc = "append" /\ Return("Aborted")

\* the "Scan complete" report, return self.scan_results
ScanComplete == pc = "epilogue" /\ Return("Completed")

\* KeyboardInterrupt inside the try block: except KeyboardInterrupt returns
Interrupt == pc \in InTry /\ Return("Interrupted")

\* KeyboardInterrupt before the try block is entered leaves scan_memory as an exception
InterruptEarly == pc = "prologue" /\ Return("Raised")

(***************************************************************************)
(* Spec: one scan_memory call on a new QFPROMExtractor                     *)
(***************************************************************************)
\* the results file holds the lines of earlier runs
OldLines == <<"0x006ffffc: de ad be ef">>

NotParsed == [status |-> "not parsed"]

\* checkSLAon.main is not running
NoProbe ==
    /\ probe_pc = "idle"
    /\ loader_exists = FALSE
    /\ read_returns = "bytes"
    /\ wire = <<>>
    /\ nop_count = 0
    /\ probe_out = "Idle"
    /\ printed = <<>>

\* QFPROMExtractor.__init__ and an idle scan
NewExtractor ==
    /\ scan_results = <<>>
    /\ error_recovery = USBErrorRecoveryInit
    /\ sla_logger = SLAResponseLoggerInit
    /\ log_file = OldLines
    /\ tmp_file = None
    /\ pc = "idle"
    /\ step = 0
    /\ reads_completed = 0
    /\ non_zero_count = 0
    /\ data = None
    /\ result = NoResult
    /\ outcome = "Idle"
    /\ reads = <<>>
    /\ events = <<>>
    /\ returned = <<>>
    /\ diag_file = NoDocument
    /\ vault = <<>>
    /\ summary = NoSummary
    /\ main_out = <<>>

Init ==
    /\ use_pyusb \in BOOLEAN
    /\ fallback \in BOOLEAN
    /\ enable_diagnostics \in BOOLEAN
    /\ args \in Ranges
    /\ NewExtractor
    /\ current_addr = 0
    /\ calls = <<>>
    /\ response = <<>>
    /\ parsed = NotParsed
    /\ NoProbe

Next ==
    \/ ScanMemory
    \/ EnterTry
    \/ LoopTest
    \/ ReadSingleAddress
    \/ PyWrite
    \/ PyWriteFails
    \/ PySleep
    \/ PyRead
    \/ PyReadTimeout
    \/ PyReadFails
    \/ FbRun
    \/ FbRunFails
    \/ FbSleep
    \/ FbCheck
    \/ FbRemove
    \/ FbRemoveFails
    \/ FbRemoveInterrupted
    \/ Check
    \/ AppendLine
    \/ AppendFails
    \/ ScanComplete
    \/ Interrupt
    \/ InterruptEarly

Spec == Init /\ [][Next]_vars

\* the scans whose progress is checked: every configuration on the short ranges,
\* and the sweep of MaxReads addresses on the native channel alone (the helper
\* adds no recovery action: _read_memory_fallback never calls handle_error)
InitLive ==
    /\ Init
    /\ (args.step = DEFAULT_STEP /\ args.start_addr < args.end_addr) => ~fallback

\* the scan with the progress of a sequential program: every statement of the
\* scan returns (device.read and subprocess.run have timeouts), so the scan goes
\* on while a step is possible
SpecLive == InitLive /\ [][Next]_vars /\ WF_vars(Next)

(***************************************************************************)
(* SpecRecovery: a USBErrorRecovery object driven call by call, as the     *)
(* diagnose-usb action of main does (handle_error at 0x00701000 + i * 4)   *)
(***************************************************************************)
\* first addresses of the calls: 0x00701000, and 0x00701ff4 from where the
\* addresses cross a 4 KiB boundary
RecoveryBases == {7344128, 7348212}

\* error codes passed to handle_error: 0x04, 0xff and another code
ErrorCodes == {4, 255, 1}

\* no scan is running: the objects are as constructed
NoScan ==
    /\ use_pyusb = FALSE
    /\ fallback = FALSE
    /\ enable_diagnostics = FALSE
    /\ args = [start_addr |-> 0, end_addr |-> 0, step |-> DEFAULT_STEP]
    /\ NewExtractor

InitRecovery ==
    /\ NoScan
    /\ current_addr \in RecoveryBases
    /\ calls = <<>>
    /\ response = <<>>
    /\ parsed = NotParsed
    /\ NoProbe

\* action = recovery.handle_error(address, error_code), the next call at address + 4
CallHandleError ==
    /\ Len(calls) < MaxCalls
    /\ \E code \in ErrorCodes :
           LET h == handle_error(error_recovery, current_addr, code)
           IN  /\ error_recovery' = h.er
               /\ calls' = Append(calls, [op |-> "handle_error", address |-> current_addr,
                                          code |-> code, action |-> h.action,
                                          slept |-> h.slept, count |-> h.er.error_count])
    /\ current_addr' = current_addr + 4
    /\ UNCHANGED <<instVars, diagVars, histVars, sla_logger, parseVars, scan_results, log_file,
                   tmp_file, args, pc, step, reads_completed, non_zero_count, data,
                   result, outcome>>

\* recovery.reset_error_count()
CallResetErrorCount ==
    /\ Len(calls) < MaxCalls
    /\ error_recovery' = reset_error_count(error_recovery)
    /\ calls' = Append(calls, [op |-> "reset_error_count",
                               count |-> error_recovery'.error_count])
    /\ UNCHANGED <<instVars, diagVars, scanVars, histVars, sla_logger, parseVars>>

NextRecovery == CallHandleError \/ CallResetErrorCount

SpecRecovery == InitRecovery /\ [][NextRecovery]_vars

(***************************************************************************)
(* SpecParse: parse_response on every response made of at most MaxChunks   *)
(* chunks                                                                  *)
(***************************************************************************)
\* the pieces responses are made of: the 0x04 byte, the markers, a value
\* attribute, an empty value attribute, "A", 0xff, "CK" (ACK once decoded),
\* a NUL byte and the letter x
Chunks ==
    {<<4>>, ACK, NAK, ERROR, error, LOGTAG, VALUEATTR \o <<120>> \o QUOTE,
     VALUEATTR \o QUOTE, <<65, 255, 67, 75>>, <<0>>, <<120>>}

RECURSIVE Concats(_)
Concats(n) ==
    IF n = 0 THEN {<<>>}
    ELSE LET shorter == Concats(n - 1)
         IN  shorter \cup {r \o c : r \in shorter, c \in Chunks}

Responses == Concats(MaxChunks)

InitParse ==
    /\ NoScan
    /\ current_addr = 0
    /\ calls = <<>>
    /\ response \in Responses
    /\ parsed = NotParsed
    /\ NoProbe

ParseResponse ==
    /\ parsed = NotParsed
    /\ parsed' = parse_response(response)
    /\ UNCHANGED <<instVars, diagVars, scanVars, histVars, error_recovery, sla_logger, calls, response>>

NextParse == ParseResponse

SpecParse == InitParse /\ [][NextParse]_vars

(***************************************************************************)
(* SpecMain: the scan-memory action of main: the scanner is constructed,   *)
(* scan_memory runs, then the diagnostics are saved, the summary printed   *)
(* and the skip report logged                                              *)
(***************************************************************************)
\* the range given on the command line: MainReads addresses, default step
MainRanges ==
    {[start_addr |-> SCAN_START_ADDR, end_addr |-> SCAN_START_ADDR + DEFAULT_STEP * MainReads,
      step |-> DEFAULT_STEP]}

\* scanner = QFPROMExtractor(..., enable_diagnostics=args.enable_diagnostics):
\* --enable-diagnostics is a store_true option whose default is True
InitMain ==
    /\ use_pyusb \in BOOLEAN
    /\ fallback \in BOOLEAN
    /\ enable_diagnostics = TRUE
    /\ args \in MainRanges
    /\ NewExtractor
    /\ current_addr = 0
    /\ calls = <<>>
    /\ response = <<>>
    /\ parsed = NotParsed
    /\ NoProbe

\* mutant of ScanReturned: main goes on only after a completed sweep
ScanReturned_onlyCompleted(how) == how = "Completed"

\* results = scanner.scan_memory(...) returned to main: each of the three return
\* statements of scan_memory
ScanReturned(how) == how \in {"Completed", "Interrupted", "Aborted"}

\* if scanner.enable_diagnostics and scanner.sla_logger:
\*     diag_file = scanner.sla_logger.save_diagnostics()
\* the document is written, or open / json.dump raises and None is returned
MainSaveDiagnostics ==
    /\ pc = "done"
    /\ ScanReturned(outcome)
    /\ IF enable_diagnostics
       THEN /\ \E written \in BOOLEAN :
                   /\ diag_file' = IF written THEN save_diagnostics(sla_logger) ELSE diag_file
                   /\ main_out' = Append(main_out,
                          [op |-> "save_diagnostics",
                           out |-> IF written THEN "sla_response_log.json" ELSE "None"])
            /\ pc' = "main_summary"
       ELSE /\ pc' = "main_report"
            /\ UNCHANGED <<diag_file, main_out>>
    /\ UNCHANGED <<probeVars, instVars, histVars, error_recovery, sla_logger, calls, parseVars,
                   vault, summary, scan_results, log_file, tmp_file, args, step,
                   current_addr, reads_completed, non_zero_count, data, result, outcome>>

\* print(scanner.sla_logger.get_connection_summary())
MainSummary ==
    /\ pc = "main_summary"
    /\ summary' = get_connection_summary(sla_logger)
    /\ main_out' = Append(main_out, [op |-> "get_connection_summary", out |-> "printed"])
    /\ pc' = "main_report"
    /\ UNCHANGED <<probeVars, instVars, histVars, error_recovery, sla_logger, calls, parseVars,
                   diag_file, vault, scan_results, log_file, tmp_file, args, step,
                   current_addr, reads_completed, non_zero_count, data, result, outcome>>

\* logger.info(scanner.error_recovery.get_skip_report()); return 0
MainSkipReport ==
    /\ pc = "main_report"
    /\ main_out' = Append(main_out, [op |-> "get_skip_report",
                                     out |-> get_skip_report(error_recovery)])
    /\ pc' = "exit"
    /\ UNCHANGED <<probeVars, instVars, histVars, error_recovery, sla_logger, calls, parseVars,
                   diag_file, vault, summary, scan_results, log_file, tmp_file, args, step,
                   current_addr, reads_completed, non_zero_count, data, result, outcome>>

\* the statements of main after the scan_memory call
AfterScan == MainSaveDiagnostics \/ MainSummary \/ MainSkipReport

NextMain == Next \/ AfterScan

\* main is sequential code: once scan_memory has returned, its next statement runs
SpecMain == InitMain /\ [][NextMain]_vars /\ WF_vars(AfterScan)

(***************************************************************************)
(* SpecAgain: scan_memory called a second time on the same QFPROMExtractor *)
(***************************************************************************)
\* the extractor of the first call: any channel configuration, one range of
\* MainReads addresses
InitAgain ==
    /\ use_pyusb \in BOOLEAN
    /\ fallback \in BOOLEAN
    /\ enable_diagnostics \in BOOLEAN
    /\ args \in MainRanges
    /\ NewExtractor
    /\ current_addr = 0
    /\ calls = <<>>
    /\ response = <<>>
    /\ parsed = NotParsed
    /\ NoProbe

\* the ranges of the second call: the range of the first call, or a range whose
\* start is above its end
AgainRanges ==
    MainRanges \cup {[start_addr |-> SCAN_START_ADDR + DEFAULT_STEP, end_addr |-> SCAN_START_ADDR,
                      step |-> DEFAULT_STEP]}

\* mutant of ScanAgain: self.scan_results is not assigned again
ScanAgain_keepsResults ==
    /\ pc = "done"
    /\ outcome \in {"Completed", "Interrupted", "Aborted"}
    /\ calls = <<>>
    /\ \E a \in AgainRanges :
           /\ args' = a
           /\ step' = NormalStep(a.step)
    /\ reads_completed' = 0
    /\ non_zero_count' = 0
    /\ outcome' = "Running"
    /\ pc' = "prologue"
    /\ calls' = <<[op |-> "scan_memory", count |-> error_recovery.error_count,
                   lines |-> Len(log_file)]>>
    /\ reads' = <<>>
    /\ events' = <<>>
    /\ returned' = <<>>
    /\ UNCHANGED <<instVars, diagVars, error_recovery, sla_logger, parseVars,
                   scan_results, log_file, tmp_file, current_addr, data, result>>

\* scan_memory is called again once the first call has returned: lines 890-910
\* run on the object as the first call left it. Only self.scan_results is
\* assigned; self.error_recovery, self.sla_logger and the results file are left
\* as they are. The call is noted with the counter it starts with and the lines
\* the results file holds, and the observations of reads start again.
ScanAgain ==
    /\ pc = "done"
    /\ outcome \in {"Completed", "Interrupted", "Aborted"}
    /\ calls = <<>>
    /\ \E a \in AgainRanges :
           /\ args' = a
           /\ step' = NormalStep(a.step)
    /\ scan_results' = <<>>
    /\ reads_completed' = 0
    /\ non_zero_count' = 0
    /\ outcome' = "Running"
    /\ pc' = "prologue"
    /\ calls' = <<[op |-> "scan_memory", count |-> error_recovery.error_count,
                   lines |-> Len(log_file)]>>
    /\ reads' = <<>>
    /\ events' = <<>>
    /\ returned' = <<>>
    /\ UNCHANGED <<instVars, diagVars, error_recovery, sla_logger, parseVars,
                   log_file, tmp_file, current_addr, data, result>>

NextAgain == Next \/ ScanAgain

SpecAgain == InitAgain /\ [][NextAgain]_vars

(***************************************************************************)
(* SpecLogger: an SLAResponseLogger that holds the history of a session,   *)
(* then is driven call by call: a few more log calls, save_diagnostics,    *)
(* get_connection_summary                                                  *)
(***************************************************************************)
\* the entry log_response appends for the i-th response of a session, whose
\* payload is the byte i
ResponseEntry(i) ==
    log_response(SLAResponseLoggerInit, "device", "data", <<i % 256>>, "OK").responses[1]

\* the entry log_error appends for the i-th error of a session, whose context is {n: i}
ErrorEntry(i) ==
    log_error(SLAResponseLoggerInit, "usb", "error", [n |-> i]).errors[1]

\* the logger after r log_response and e log_error calls
Session(r, e) ==
    [SLAResponseLoggerInit EXCEPT !.responses = [i \in 1..r |-> ResponseEntry(i)],
                                  !.errors = [i \in 1..e |-> ErrorEntry(i)]]

\* numbers of responses and of errors logged before the driver starts: none,
\* one, and around the windows of save_diagnostics
ResponseCounts == {0, 1, LastResponses - 1, LastResponses, LastResponses + MaxOver}
ErrorCounts    == {0, 1, LastErrors - 1, LastErrors, LastErrors + MaxOver}

\* a new SLAResponseLogger() after the log_response and log_error calls of a session
InitLogger ==
    /\ use_pyusb = FALSE
    /\ fallback = FALSE
    /\ enable_diagnostics = TRUE
    /\ args = [start_addr |-> 0, end_addr |-> 0, step |-> DEFAULT_STEP]
    /\ scan_results = <<>>
    /\ error_recovery = USBErrorRecoveryInit
    /\ \E r \in ResponseCounts, e \in ErrorCounts :
           sla_logger = Session(r, e)
    /\ log_file = OldLines
    /\ tmp_file = None
    /\ pc = "idle"
    /\ step = 0
    /\ current_addr = 0
    /\ reads_completed = 0
    /\ non_zero_count = 0
    /\ data = None
    /\ result = NoResult
    /\ outcome = "Idle"
    /\ reads = <<>>
    /\ events = <<>>
    /\ returned = <<>>
    /\ calls = <<>>
    /\ response = <<>>
    /\ parsed = NotParsed
    /\ diag_file = NoDocument
    /\ vault = <<>>
    /\ summary = NoSummary
    /\ main_out = <<>>
    /\ NoProbe

\* the driver may make another log call
MayLog == pc = "idle" /\ summary = NoSummary /\ Len(calls) < MaxLogCalls

\* a log call that changes the logger only
LogCall(op, lg) ==
    /\ MayLog
    /\ sla_logger' = lg
    /\ calls' = Append(calls, [op |-> op])
    /\ UNCHANGED <<instVars, scanVars, histVars, error_recovery, parseVars, diagVars>>

\* sla_logger.log_response(...)
CallLogResponse ==
    LogCall("log_response",
            log_response(sla_logger, "firehose", "nop_heartbeat",
                         <<(Len(sla_logger.responses) + 1) % 256>>, "OK"))

\* sla_logger.log_error(...)
CallLogError ==
    LogCall("log_error", log_error(sla_logger, "firehose_nop", "Failed to send NOP heartbeat",
                                   [n |-> Len(sla_logger.errors) + 1]))

\* sla_logger.log_loader_response(...)
CallLogLoaderResponse ==
    \E success \in BOOLEAN :
        LogCall("log_loader_response",
                log_loader_response(sla_logger, "prog_firehose.elf", "response", success))

\* the challenges a device sends in the model
Challenges == {<<83, 76, 65>>}

\* sla_logger.log_sla_challenge(...): the entry is appended to the vault file, or
\* opening or writing the file raises, which is logged and swallowed
CallLogSlaChallenge ==
    /\ MayLog
    /\ \E c \in Challenges :
           /\ sla_logger' = log_sla_challenge(sla_logger, c)
           /\ vault' \in {Append(vault, VaultEntry(c)), vault}
    /\ calls' = Append(calls, [op |-> "log_sla_challenge"])
    /\ UNCHANGED <<probeVars, instVars, scanVars, histVars, error_recovery, parseVars,
                   diag_file, summary, main_out>>

\* sla_logger.save_diagnostics(): the document is written, or open / json.dump
\* raises and None is returned
CallSaveDiagnostics ==
    /\ pc = "idle"
    /\ pc' = "saved"
    /\ \E written \in BOOLEAN :
           diag_file' = IF written THEN save_diagnostics(sla_logger) ELSE diag_file
    /\ UNCHANGED <<probeVars, instVars, histVars, error_recovery, sla_logger, calls, parseVars,
                   vault, summary, main_out, scan_results, log_file, tmp_file, args, step,
                   current_addr, reads_completed, non_zero_count, data, result, outcome>>

\* sla_logger.get_connection_summary()
CallGetConnectionSummary ==
    /\ summary = NoSummary
    /\ summary' = get_connection_summary(sla_logger)
    /\ UNCHANGED <<probeVars, instVars, scanVars, histVars, error_recovery, sla_logger, calls, parseVars,
                   diag_file, vault, main_out>>

NextLogger ==
    \/ CallLogResponse
    \/ CallLogError
    \/ CallLogLoaderResponse
    \/ CallLogSlaChallenge
    \/ CallSaveDiagnostics
    \/ CallGetConnectionSummary

SpecLogger == InitLogger /\ [][NextLogger]_vars

(***************************************************************************)
(* checkSLAon.main: the loader upload and the keep-alive loop              *)
(***************************************************************************)
\* the keep-alive packets the loop is followed for
MaxNops == 5

\* str(e) of the USBError a transfer raises
NO_SUCH_DEVICE == "[Errno 19] No such device (it may have been disconnected)"
USBErrors == {NO_SUCH_DEVICE, "[Errno 110] Operation timed out"}

LOADER_PATH == "/home/vfs19/roota53/prog_firehose_ddr_res.elf"

\* str(e) of the other exceptions main can meet
DEVICE_NOT_FOUND == "[!] Device not found. Ensure the device is in EDL mode."
NO_ENDPOINTS == "[!] Could not find valid USB endpoints."
PERMISSION_DENIED == "[Errno 13] Permission denied"
NO_DECODE == "'array.array' object has no attribute 'decode'"

\* "No such device" in str(e)
MentionsNoSuchDevice(e) == e = NO_SUCH_DEVICE

\* ep_in.read returns the object of the USB library: usb.core returns
\* array.array('B'), which has no decode method; a bytes object has one
ReadReturns == {"array", "bytes"}

HasDecode(kind) == kind = "bytes"

otherVars == <<instVars, scanVars, histVars, error_recovery, sla_logger, calls, parseVars,
               diag_file, vault, summary, main_out>>

InitProbe ==
    /\ NoScan
    /\ current_addr = 0
    /\ calls = <<>>
    /\ response = <<>>
    /\ parsed = NotParsed
    /\ probe_pc = "find_device"
    /\ loader_exists \in BOOLEAN
    /\ read_returns \in ReadReturns
    /\ wire = <<>>
    /\ nop_count = 0
    /\ probe_out = "Running"
    /\ printed = <<>>

\* an exception other than USBError inside the loop, or any exception before it,
\* reaches "except Exception" of main
Fatal(e) ==
    /\ probe_pc' = "done"
    /\ probe_out' = "Fatal"
    /\ printed' = <<"[!] Fatal Error: " \o e>>

\* dev = find_device()
FindDevice ==
    /\ probe_pc = "find_device"
    /\ probe_pc' = "configure_usb"
    /\ UNCHANGED <<otherVars, loader_exists, read_returns, wire, nop_count, probe_out, printed>>

\* find_device raises ValueError: no device
FindDeviceFails ==
    /\ probe_pc = "find_device"
    /\ Fatal(DEVICE_NOT_FOUND)
    /\ UNCHANGED <<otherVars, loader_exists, read_returns, wire, nop_count>>

\* ep_out, ep_in = configure_usb(dev)
ConfigureUsb ==
    /\ probe_pc = "configure_usb"
    /\ probe_pc' = "loader"
    /\ UNCHANGED <<otherVars, loader_exists, read_returns, wire, nop_count, probe_out, printed>>

\* configure_usb raises USBError or RuntimeError
ConfigureUsbFails ==
    /\ probe_pc = "configure_usb"
    /\ \E e \in USBErrors \cup {NO_ENDPOINTS} : Fatal(e)
    /\ UNCHANGED <<otherVars, loader_exists, read_returns, wire, nop_count>>

\* if not os.path.exists(LOADER_PATH): return
LoaderMissing ==
    /\ probe_pc = "loader"
    /\ ~loader_exists
    /\ probe_pc' = "done"
    /\ probe_out' = "NoLoader"
    /\ printed' = <<"[!] Error: Programmer not found at " \o LOADER_PATH>>
    /\ UNCHANGED <<otherVars, loader_exists, read_returns, wire, nop_count>>

\* loader_data = f.read(); ep_out.write(loader_data)
UploadLoader ==
    /\ probe_pc = "loader"
    /\ loader_exists
    /\ wire' = Append(wire, "loader")
    /\ probe_pc' = "settle"
    /\ UNCHANGED <<otherVars, loader_exists, read_returns, nop_count, probe_out, printed>>

\* open or f.read raises OSError, or ep_out.write(loader_data) raises USBError:
\* outside the loop's try, so "except Exception" of main
UploadLoaderFails ==
    /\ probe_pc = "loader"
    /\ loader_exists
    /\ \E e \in USBErrors \cup {PERMISSION_DENIED} : Fatal(e)
    /\ UNCHANGED <<otherVars, loader_exists, read_returns, wire, nop_count>>

\* time.sleep(2); count = 0
Settle ==
    /\ probe_pc = "settle"
    /\ nop_count' = 0
    /\ probe_pc' = "nop_write"
    /\ UNCHANGED <<otherVars, loader_exists, read_returns, wire, probe_out, printed>>

\* ep_out.write(nop_command)
SendNop ==
    /\ probe_pc = "nop_write"
    /\ nop_count < MaxNops
    /\ wire' = Append(wire, "nop")
    /\ probe_pc' = "nop_read"
    /\ UNCHANGED <<otherVars, loader_exists, read_returns, nop_count, probe_out, printed>>

\* except usb.core.USBError as e: the prints and break, after which main returns
ConnectionDropped(e) ==
    /\ printed' = <<"[!] Connection dropped: " \o e>> \o
                  (IF MentionsNoSuchDevice(e)
                   THEN <<"[!] Result: SLA Authentication likely active.">>
                   ELSE <<>>)
    /\ probe_pc' = "done"
    /\ probe_out' = "Dropped"

\* ep_out.write(nop_command) raises USBError
SendNopFails ==
    /\ probe_pc = "nop_write"
    /\ nop_count < MaxNops
    /\ \E e \in USBErrors : ConnectionDropped(e)
    /\ UNCHANGED <<otherVars, loader_exists, read_returns, wire, nop_count>>

\* response = ep_in.read(1024, timeout=1000)
ReadResponse ==
    /\ probe_pc = "nop_read"
    /\ wire' = Append(wire, "response")
    /\ probe_pc' = "decode"
    /\ UNCHANGED <<otherVars, loader_exists, read_returns, nop_count, probe_out, printed>>

\* ep_in.read raises USBError (USBTimeoutError is one)
ReadResponseFails ==
    /\ probe_pc = "nop_read"
    /\ \E e \in USBErrors : ConnectionDropped(e)
    /\ UNCHANGED <<otherVars, loader_exists, read_returns, wire, nop_count>>

\* decoded_res = response.decode('utf-8', errors='ignore') and the print
DecodeResponse ==
    /\ probe_pc = "decode"
    /\ HasDecode(read_returns)
    /\ probe_pc' = "count"
    /\ UNCHANGED <<otherVars, loader_exists, read_returns, wire, nop_count, probe_out, printed>>

\* response.decode raises AttributeError, which is no USBError
DecodeResponseFails ==
    /\ probe_pc = "decode"
    /\ ~HasDecode(read_returns)
    /\ Fatal(NO_DECODE)
    /\ UNCHANGED <<otherVars, loader_exists, read_returns, wire, nop_count>>

\* count += 1
CountUp ==
    /\ probe_pc = "count"
    /\ nop_count' = nop_count + 1
    /\ probe_pc' = "pause"
    /\ UNCHANGED <<otherVars, loader_exists, read_returns, wire, probe_out, printed>>

\* time.sleep(0.5) and back to the top of while True
Pause ==
    /\ probe_pc = "pause"
    /\ probe_pc' = "nop_write"
    /\ UNCHANGED <<otherVars, loader_exists, read_returns, wire, nop_count, probe_out, printed>>

\* except KeyboardInterrupt of main: Ctrl-C at any statement
ProbeInterrupt ==
    /\ probe_pc \notin {"idle", "done"}
    /\ probe_pc' = "done"
    /\ probe_out' = "Interrupted"
    /\ printed' = <<"[*] Research interrupted by user.">>
    /\ UNCHANGED <<otherVars, loader_exists, read_returns, wire, nop_count>>

NextProbe ==
    \/ FindDevice
    \/ FindDeviceFails
    \/ ConfigureUsb
    \/ ConfigureUsbFails
    \/ LoaderMissing
    \/ UploadLoader
    \/ UploadLoaderFails
    \/ Settle
    \/ SendNop
    \/ SendNopFails
    \/ ReadResponse
    \/ ReadResponseFails
    \/ DecodeResponse
    \/ DecodeResponseFails
    \/ CountUp
    \/ Pause
    \/ ProbeInterrupt

SpecProbe == InitProbe /\ [][NextProbe]_vars

(***************************************************************************)
(* Properties                                                              *)
(***************************************************************************)
IsPrefix(p, q) == Len(p) <= Len(q) /\ \A i \in 1..Len(p) : p[i] = q[i]

\* start, start + step, ... below end, written without the loop
ExpectedAddrs(a) ==
    [i \in 1..((a.end_addr - a.start_addr + a.step - 1) \div a.step) |->
        a.start_addr + (i - 1) * a.step]

\* indices of the reads that returned 4 bytes that are not all zero
Discoveries == {i \in 1..Len(returned) : returned[i].data \notin {None, <<0, 0, 0, 0>>}}

\* C1: for start < end and step >= 1 the addresses passed to the single-address
\* read are start, start + step, ... below end, each once and in ascending order,
\* whatever the reads return: at any moment the reads made are the first of
\* these, and a completed sweep has made all of them.
C1_VisitsEveryAddressOnce ==
    (args.start_addr < args.end_addr /\ args.step >= 1) =>
        /\ IsPrefix(reads, ExpectedAddrs(args))
        /\ \A i, j \in 1..Len(reads) : i < j => reads[i] < reads[j]
        /\ outcome = "Completed" => reads = ExpectedAddrs(args)

\* a completed sweep with a step that is not 4, a failed read and a discovery
C1_Witness ==
    /\ outcome = "Completed"
    /\ args.step = 3
    /\ Len(reads) = 2
    /\ \E i \in 1..Len(returned) : returned[i].data = None
    /\ Discoveries # {}

\* C2: no address whose read returned 00 00 00 00 is a key of scan_results, in
\* any state of the scan and in what scan_memory returns.
C2_NoZeroStored ==
    /\ \A i \in 1..Len(returned) :
           returned[i].data = <<0, 0, 0, 0>> => returned[i].addr \notin Keys(scan_results)
    /\ \A j \in 1..Len(scan_results) : scan_results[j].value # "00 00 00 00"

\* scan_memory has returned, a read gave the null pattern and another was stored
C2_Witness ==
    /\ pc = "done"
    /\ \E i \in 1..Len(returned) : returned[i].data = <<0, 0, 0, 0>>
    /\ scan_results # <<>>

\* the text of the words the device and the helper deliver in the model
WordText(d) ==
    CASE d = <<1, 2, 3, 4>>       -> "01 02 03 04"
      [] d = <<171, 205, 0, 255>> -> "ab cd 00 ff"
      [] d = <<4, 0, 0, 1>>       -> "04 00 00 01"
      [] OTHER                    -> "?"

\* the text of the addresses 0x00700000 .. 0x0070001f
AddrText(a) ==
    "0x007000" \o
    <<"00", "01", "02", "03", "04", "05", "06", "07", "08", "09", "0a", "0b", "0c", "0d",
      "0e", "0f", "10", "11", "12", "13", "14", "15", "16", "17", "18", "19", "1a", "1b",
      "1c", "1d", "1e", "1f">>[a - 7340032 + 1]

\* C3: in a completed scan, scan_results holds an entry for a exactly when the
\* read of a returned 4 bytes not all zero, the entries are in read order, the
\* value is the lowercase hex of the 4 bytes separated by spaces, and exactly one
\* line "0x<address>: <value>" per entry was appended to the results file.
C3_CompletedResult ==
    outcome = "Completed" =>
        /\ Len(returned) = Len(reads)
        /\ \A i \in 1..Len(returned) : returned[i].addr = reads[i]
        /\ Keys(scan_results) = {returned[i].addr : i \in Discoveries}
        /\ Len(scan_results) = Cardinality(Discoveries)
        /\ \A j \in 1..Len(scan_results) : \E i \in Discoveries :
               /\ returned[i].addr = scan_results[j].addr
               /\ scan_results[j].value = WordText(returned[i].data)
        /\ Len(log_file) = Len(OldLines) + Len(scan_results)
        /\ \A j \in 1..Len(scan_results) :
               log_file[Len(OldLines) + j] =
                   AddrText(scan_results[j].addr) \o ": " \o scan_results[j].value

\* outcomes zero, 01 02 03 04, failure: one entry and one appended line
C3_Witness ==
    /\ outcome = "Completed"
    /\ args.step = 4
    /\ Len(returned) = 3
    /\ returned[1].data = <<0, 0, 0, 0>>
    /\ returned[2].data = <<1, 2, 3, 4>>
    /\ returned[3].data = None
    /\ scan_results = <<[addr |-> 7340036, value |-> "01 02 03 04"]>>
    /\ log_file = OldLines \o <<"0x00700004: 01 02 03 04">>

\* call i of the log is handle_error with the given code
IsError(i, code) == calls[i].op = "handle_error" /\ calls[i].code = code

\* the counter before call i of the log
CountBefore(i) == IF i = 1 THEN 0 ELSE calls[i - 1].count

\* the 4 KiB boundaries above the addresses of the model
BoundaryAbove(a) == IF a < 7348224 THEN 7348224 ELSE 7352320

\* C4: on a new USBErrorRecovery, five handle_error calls in a row with code
\* 0x04 at increasing addresses give exactly one skip_to_next_block, from the
\* fifth call, to the next 4 KiB boundary above the fifth address, and exactly
\* one entry in skip_regions.
C4_FifthErrorSkipsBlock ==
    (Len(calls) = 5 /\ \A i \in 1..5 : IsError(i, 4)) =>
        /\ \A i \in 1..4 : calls[i].action.action # "skip_to_next_block"
        /\ calls[5].action.action = "skip_to_next_block"
        /\ calls[5].action.next_address = BoundaryAbove(calls[5].address)
        /\ Len(error_recovery.skip_regions) = 1

\* C5: from a counter of 0, the first and the second handle_error call in a row
\* with code 0xff return retry at the failing address after a 2-second sleep;
\* the third in a row returns skip_address and leaves the counter at 0.
C5_TimeoutRetriesThenSkips ==
    \A i \in 1..Len(calls) :
        (IsError(i, 255) /\ CountBefore(i) = 0) =>
            /\ calls[i].action.action = "retry"
            /\ calls[i].action.next_address = calls[i].address
            /\ calls[i].action.delay_ms = 2000
            /\ calls[i].slept = 2
            /\ (i + 1 <= Len(calls) /\ IsError(i + 1, 255)) =>
                   /\ calls[i + 1].action.action = "retry"
                   /\ calls[i + 1].action.next_address = calls[i + 1].address
                   /\ calls[i + 1].action.delay_ms = 2000
                   /\ calls[i + 1].slept = 2
                   /\ (i + 2 <= Len(calls) /\ IsError(i + 2, 255)) =>
                          /\ calls[i + 2].action.action = "skip_address"
                          /\ calls[i + 2].count = 0
                          /\ (i + 2 = Len(calls) => error_recovery.error_count = 0)

\* three timeouts in a row on a new object
C5_Witness ==
    /\ Len(calls) = 3
    /\ \A i \in 1..3 : IsError(i, 255)
    /\ calls[3].action.action = "skip_address"

\* C6: reset_error_count leaves the counter at 0 whatever it was, and changes
\* no other field of the error-recovery state.
C6_ResetOnlyZeroesCounter ==
    [][(Len(calls') = Len(calls) + 1 /\ calls'[Len(calls')].op = "reset_error_count") =>
          /\ error_recovery'.error_count = 0
          /\ error_recovery'.last_error = error_recovery.last_error
          /\ error_recovery'.skip_regions = error_recovery.skip_regions
          /\ error_recovery'.error_threshold = error_recovery.error_threshold
          /\ error_recovery'.last_good_address = error_recovery.last_good_address]_vars

\* a reset after a streak of two errors, and a reset of a counter that is 0
C6_Witness ==
    /\ Len(calls) = 4
    /\ calls[1].op = "handle_error" /\ calls[2].op = "handle_error"
    /\ calls[2].count = 2
    /\ calls[3].op = "reset_error_count" /\ calls[4].op = "reset_error_count"
    /\ error_recovery.error_count = 0
    /\ error_recovery.last_error.count = 2

\* C7: a response whose first byte is 0x04 is classified error_code_0x04 whatever
\* else it contains, and no other response is.
C7_FirstByte04 ==
    parsed # NotParsed =>
        IF Len(response) > 0 /\ response[1] = 4
        THEN parsed.status = "error_code_0x04"
        ELSE parsed.status # "error_code_0x04"

\* a response that starts with 0x04 and goes on with ACK
C7_Witness ==
    /\ response = <<4>> \o ACK
    /\ parsed.status = "error_code_0x04"

\* a KeyboardInterrupt is delivered in this step of the sweep
InterruptArrives ==
    /\ outcome = "Running"
    /\ pc \in InTry
    /\ \/ outcome' = "Interrupted"
       \/ events' = Append(events, "interrupt_swallowed")

\* C8: an interruption during the sweep ends the run as Interrupted with
\* exactly the entries stored so far, and no read is issued afterwards.
C8_InterruptionEndsSweep ==
    [][/\ InterruptArrives =>
              /\ outcome' = "Interrupted"
              /\ pc' = "done"
              /\ scan_results' = scan_results
              /\ reads' = reads
       /\ outcome = "Interrupted" =>
              /\ outcome' = "Interrupted"
              /\ scan_results' = scan_results
              /\ reads' = reads]_vars

\* C9: the native channel is attempted first whenever it is available; the
\* secondary channel is attempted only after the native attempt gave no data or
\* when the native channel is unavailable; after a native failure the secondary
\* channel is attempted if it is configured; the read returns None only if every
\* configured channel was attempted and failed.
C9_ChannelOrder ==
    /\ (use_pyusb /\ events # <<>>) => events[1] = "native"
    /\ InSeq("secondary", events) =>
           /\ fallback
           /\ \/ ~use_pyusb
              \/ \A j \in 1..Len(events) :
                     events[j] = "secondary" =>
                         \E i \in 1..(j - 1) : events[i] = "native_failed"
    /\ pc = "check" =>
           /\ use_pyusb => InSeq("native", events)
           /\ ~use_pyusb => ~InSeq("native", events)
           /\ (fallback /\ (~use_pyusb \/ InSeq("native_failed", events))) =>
                  InSeq("secondary", events)
           /\ data = None =>
                  /\ use_pyusb => InSeq("native_failed", events)
                  /\ fallback => InSeq("secondary", events)

\* a read about to return the word delivered by the helper after the native
\* channel answered with a 0x04 frame
C9_Witness ==
    /\ pc = "check"
    /\ InSeq("handle_error", events)
    /\ InSeq("native_failed", events)
    /\ InSeq("remove", events)
    /\ data = <<4, 0, 0, 1>>

\* C10: every failed read attempt is recorded in the diagnostics before the
\* single-address read returns, so with diagnostics enabled the recorded errors
\* are at least as many as the reads that returned None.
C10_FailuresRecorded ==
    (enable_diagnostics /\ (use_pyusb \/ fallback)) =>
        /\ (pc = "check" /\ data = None) => InSeq("log_error", events)
        /\ Len(sla_logger.errors) >=
               Cardinality({i \in 1..Len(returned) : returned[i].data = None})

\* handle_error calls made by the read in progress
HandleErrorCalls == Cardinality({i \in 1..Len(events) : events[i] = "handle_error"})

\* channel attempts of the read in progress that failed
FailedAttempts ==
    (IF InSeq("native_failed", events) THEN 1 ELSE 0)
        + (IF InSeq("secondary", events) /\ data = None THEN 1 ELSE 0)

\* C11: handle_error is called exactly once for every failed read attempt before
\* the read returns to the scan loop, whatever made the attempt fail: when the
\* single-address read returns, the calls made are as many as the attempts that
\* failed.
C11_EveryFailureHandledOnce ==
    pc = "check" => HandleErrorCalls = FailedAttempts

\* C12: after every successful read of a scan, the one whose 4 bytes have just
\* been stored in scan_results, the error counter is 0, whichever channel
\* delivered the bytes.
C12_CounterZeroAfterSuccess ==
    pc = "append" => error_recovery.error_count = 0

\* C13: a read that fails at one address never ends the sweep: unless the user
\* interrupts, the step after a failed read goes back to the loop test at the
\* next address, the loop test issues the read of every address below the end,
\* and a run that ended on an error ended while recording a discovery.
C13_FailedReadNeverEndsSweep ==
    /\ [](outcome = "Aborted" => (returned # <<>> /\ Len(returned) \in Discoveries))
    /\ [][(pc = "check" /\ ReadFailed(data) /\ outcome' # "Interrupted") =>
              /\ pc' = "loop"
              /\ outcome' = "Running"
              /\ current_addr' = current_addr + step]_vars
    /\ [][(pc = "loop" /\ current_addr < args.end_addr /\ outcome' # "Interrupted") =>
              /\ pc' = "read"
              /\ reads' = Append(reads, current_addr)]_vars

\* a sweep completed although its first two reads failed, among them a timeout
\* and another USB exception
C13_Witness ==
    /\ outcome = "Completed"
    /\ Len(returned) = 3
    /\ returned[1].data = None
    /\ returned[2].data = None
    /\ 3 \in Discoveries
    /\ Len(sla_logger.errors) = 2
    /\ sla_logger.errors[1].type = "usb_timeout"
    /\ sla_logger.errors[2].type = "usb_exception"

\* C14: a failure to write the results file does not interrupt scanning: unless
\* the user interrupts, the step that follows the storing of a discovery goes on
\* to the loop test at the next address, whether the write succeeded or not.
C14_WriteFailureSwallowed ==
    [][(pc = "append" /\ outcome' # "Interrupted") =>
          /\ pc' = "loop"
          /\ outcome' = "Running"
          /\ current_addr' = current_addr + step]_vars

\* C15: the results file is only appended to (every step leaves the lines it
\* held in place), and at every iteration boundary the lines appended by this
\* run are, in order, one line "0x<address>: <value>" per entry of scan_results.
C15_AppendedLinesMatchResults ==
    /\ [][IsPrefix(log_file, log_file')]_vars
    /\ [](pc = "loop" =>
            /\ IsPrefix(OldLines, log_file)
            /\ Len(log_file) = Len(OldLines) + Len(scan_results)
            /\ \A j \in 1..Len(scan_results) :
                   log_file[Len(OldLines) + j] =
                       AddrText(scan_results[j].addr) \o ": " \o scan_results[j].value)

\* an iteration boundary with two discoveries made and persisted
C15_Witness ==
    /\ pc = "loop"
    /\ outcome = "Running"
    /\ Len(scan_results) = 2
    /\ Len(log_file) = Len(OldLines) + 2

\* the ways device.read ends, as events of the read in progress
Receives == {"read", "read_timeout", "read_exception"}

\* C18: on the native channel every receive, however it ends, comes right after
\* the fixed delay, which comes right after the send of the peek command; the
\* receive is never reached without the delay.
C18_DelayBeforeReceive ==
    /\ \A j \in 1..Len(events) :
           events[j] \in Receives =>
               /\ j >= 3
               /\ events[j - 1] = "delay"
               /\ events[j - 2] = "write"
    /\ pc = "py_read" => (events # <<>> /\ events[Len(events)] = "delay")

\* a native read that delivered a word after send, delay and receive
C18_Witness ==
    /\ pc = "check"
    /\ data = <<1, 2, 3, 4>>
    /\ InSeq("write", events)
    /\ InSeq("delay", events)
    /\ InSeq("read", events)

\* the terminal outcomes of the scan controller
Terminal == {"Completed", "Interrupted", "Aborted"}

\* C17: every scan_memory invocation that ends, ends in exactly one of Completed,
\* Interrupted and Aborted, by returning scan_results and not by raising; once
\* the outcome is terminal it does not change, no further read is issued and the
\* entries stay as returned.
C17_ExactlyOneTerminalOutcome ==
    /\ [](pc = "done" <=> outcome \in Terminal)
    /\ [](outcome \in {"Idle", "Running"} \cup Terminal)
    /\ [][(outcome \in Terminal) =>
              /\ outcome' = outcome
              /\ pc' = "done"
              /\ reads' = reads
              /\ scan_results' = scan_results]_vars

\* the calls main made after the scan, by name
MainCalls == [i \in 1..Len(main_out) |-> main_out[i].op]

\* C16: in the scan-memory action, whichever way the sweep ends (completed,
\* interrupted, ended by an error, every read failed or not), main then saves
\* the diagnostics, prints the connection summary and produces the skip report,
\* in this order, and does nothing of this before the sweep has ended.
C16_ReportsAfterEveryEnding ==
    /\ (outcome \in Terminal) ~> (pc = "exit")
    /\ [](pc = "exit" =>
            /\ MainCalls = <<"save_diagnostics", "get_connection_summary", "get_skip_report">>
            /\ summary = get_connection_summary(sla_logger)
            /\ (main_out[1].out # "None") => (diag_file = save_diagnostics(sla_logger)))
    /\ [](outcome \notin Terminal => main_out = <<>>)

\* main has returned after an interrupted sweep whose only read failed, with the
\* diagnostics written
C16_Witness ==
    /\ pc = "exit"
    /\ outcome = "Interrupted"
    /\ Len(returned) = 1
    /\ returned[1].data = None
    /\ diag_file # NoDocument
    /\ Len(main_out) = 3

\* s[-n:] written without slicing
Window(l, n) ==
    LET k == IF Len(l) < n THEN Len(l) ELSE n
    IN  [i \in 1..k |-> l[Len(l) - k + i]]

\* C19: the saved document holds the full counts of responses, challenges,
\* loader responses and errors, the 100 most recent responses and the 50 most
\* recent errors in their order, and every challenge; saving leaves the
\* histories in memory as they were.
C19_SaveKeepsCountsAndWindows ==
    /\ [](diag_file # NoDocument =>
            /\ Get(diag_file, "total_responses") = IntValue(Len(sla_logger.responses))
            /\ Get(diag_file, "sla_challenges_count") = IntValue(Len(sla_logger.sla_challenges))
            /\ Get(diag_file, "loader_responses") = IntValue(Len(sla_logger.loader_responses))
            /\ Get(diag_file, "errors_count") = IntValue(Len(sla_logger.errors))
            /\ Get(diag_file, "responses") = ListValue(Window(sla_logger.responses, 100))
            /\ Get(diag_file, "errors") = ListValue(Window(sla_logger.errors, 50))
            /\ Get(diag_file, "sla_challenges") = ListValue(sla_logger.sla_challenges))
    /\ [][(diag_file' # diag_file) => (sla_logger' = sla_logger)]_vars

\* C20: the loader success rate of the summary is successes / max(attempts, 1)
\* as a percentage with one decimal: 0.0 when no loader response was logged, and
\* never above 100.0.
C20_SuccessRate ==
    summary # NoSummary =>
        LET lr == sla_logger.loader_responses
            ok == Cardinality({i \in 1..Len(lr) : lr[i].success = TRUE})
            d  == IF Len(lr) > 1 THEN Len(lr) ELSE 1
        IN  /\ 2 * (summary.success_rate * d - 1000 * ok) <= d
            /\ 2 * (1000 * ok - summary.success_rate * d) <= d
            /\ (lr = <<>>) => (summary.success_rate = 0)
            /\ summary.success_rate >= 0
            /\ summary.success_rate <= 1000

\* summaries of no loader response, and of three of which one succeeded
C20_Witness ==
    /\ summary # NoSummary
    /\ Len(sla_logger.loader_responses) = 3
    /\ summary.success_rate = 333

\* the errors whose logged context is the action handle_error returned
HandledErrors == {"usb_error_0x04", "usb_timeout"}

\* C22: a skip_address action returned during a scan names the next address of
\* the scan, next_address = address + step with skip_size = step, whatever the
\* step of the scan is: the action logged last is the one of the last error
\* handled.
C22_SkipAddressFollowsStep ==
    LET errors == sla_logger.errors
    IN  (/\ errors # <<>>
         /\ errors[Len(errors)].type \in HandledErrors
         /\ errors[Len(errors)].context.action = "skip_address")
            => /\ errors[Len(errors)].context.next_address
                      = error_recovery.last_error.address + step
               /\ errors[Len(errors)].context.skip_size = step

\* C23: every handle_error call increments the counter by exactly one and
\* records last_error with the address, the code and the incremented count; the
\* default (skip_address) branch then resets the counter to 0 exactly when the
\* incremented count is >= 3 and otherwise leaves it at 1 or 2; the retry and
\* the skip_to_next_block branch leave the incremented counter as it is.
C23_CounterDiscipline ==
    [][(Len(calls') > Len(calls) /\ calls'[Len(calls')].op = "handle_error") =>
          LET call == calls'[Len(calls')]
              incremented == error_recovery.error_count + 1
          IN  /\ call.address = current_addr
              /\ error_recovery'.last_error =
                     [address |-> call.address, code |-> call.code, count |-> incremented]
              /\ (call.action.action = "skip_address") =>
                     /\ error_recovery'.error_count
                            = (IF incremented >= 3 THEN 0 ELSE incremented)
                     /\ (incremented < 3) => (error_recovery'.error_count \in {1, 2})
              /\ (call.action.action \in {"retry", "skip_to_next_block"}) =>
                     (error_recovery'.error_count = incremented)]_vars

\* a timeout answered by retry (counter 1), a 0x04 error skipped with the counter
\* left at 2, and a third error skipped with the counter reset from 3 to 0
C23_Witness ==
    /\ Len(calls) = 3
    /\ \A i \in 1..3 : calls[i].op = "handle_error"
    /\ calls[1].action.action = "retry" /\ calls[1].count = 1
    /\ calls[2].action.action = "skip_address" /\ calls[2].count = 2
    /\ calls[3].action.action = "skip_address" /\ calls[3].count = 0
    /\ error_recovery.last_error.count = 3

\* the actions handle_error returned during the scan, oldest first
LoggedActions ==
    LET handled == SelectSeq(sla_logger.errors, LAMBDA e : e.type \in HandledErrors)
    IN  [i \in 1..Len(handled) |-> handled[i].context.action]

\* native and helper attempts of the read in progress
Attempts(kind) == Cardinality({i \in 1..Len(events) : events[i] = kind})

\* a timeout has just been handled and logged
TimeoutHandled ==
    /\ Len(sla_logger'.errors) = Len(sla_logger.errors) + 1
    /\ sla_logger'.errors[Len(sla_logger'.errors)].type = "usb_timeout"

\* C25: timeout recovery has bounded patience. A timeout is answered by retry
\* only as the first or the second error since the counter was last reset, each
\* retry raising the counter by one, and by skip_address otherwise, so a run of
\* timeouts with no reset in between gets at most two retry actions in a row;
\* every address is read at most once, with at most one attempt on each channel,
\* and a scan that has entered its loop always reaches a terminal state, also
\* when every read times out.
C25_BoundedPatience ==
    /\ [][TimeoutHandled =>
             LET action == sla_logger'.errors[Len(sla_logger'.errors)].context.action
             IN  IF error_recovery.error_count < 2
                 THEN /\ action = "retry"
                      /\ error_recovery'.error_count = error_recovery.error_count + 1
                 ELSE action = "skip_address"]_vars
    /\ [](/\ \A i, j \in 1..Len(reads) : (i < j) => (reads[i] < reads[j])
          /\ Attempts("native") <= 1
          /\ Attempts("secondary") <= 1)
    /\ (pc = "loop") ~> (outcome \in Terminal)

\* a completed sweep of three addresses on which every read timed out: two
\* retry actions, then skip_address
C25_Witness ==
    /\ outcome = "Completed"
    /\ Len(reads) = 3
    /\ LoggedActions = <<"retry", "retry", "skip_address">>
    /\ \A i \in 1..Len(sla_logger.errors) : sla_logger.errors[i].type = "usb_timeout"

\* C26: scan_memory called with a step below 1 (zero or negative) behaves as
\* with step = 4: the addresses read are start, start + 4, start + 8, ..., a
\* completed sweep has read every fourth address below the end, and the sweep
\* reaches a terminal state.
C26_StepBelowOneIsFour ==
    /\ []((args.step < 1 /\ pc # "idle") =>
            /\ step = 4
            /\ \A i \in 1..Len(reads) : reads[i] = args.start_addr + 4 * (i - 1))
    /\ []((args.step < 1 /\ outcome = "Completed") =>
            Len(reads) = (args.end_addr - args.start_addr + 3) \div 4)
    /\ (args.step < 1 /\ pc = "loop") ~> (outcome \in Terminal)

\* a completed sweep called with step 0 that has read start and start + 4
C26_Witness ==
    /\ args.step = 0
    /\ outcome = "Completed"
    /\ reads = <<args.start_addr, args.start_addr + 4>>

\* C27: a response whose first byte is not 0x04 is classified by the first rule
\* that matches its text, in the order ack, nak, error, log, unknown: ACK gives
\* ack whatever else the text holds; NAK without ACK gives nak with the generic
\* message; an error marker without ACK and NAK gives error, with the quoted
\* value attribute as detail when there is one; "<log " alone gives log; a text
\* with none of the markers is unknown.
C27_FirstMatchingRule ==
    (parsed # NotParsed /\ ~(Len(response) > 0 /\ response[1] = 4)) =>
        LET text   == parsed.text
            hasAck == Contains(text, ACK)
            hasNak == Contains(text, NAK)
            hasErr == Contains(text, ERROR) \/ Contains(text, error)
            hasLog == Contains(text, LOGTAG)
        IN  /\ hasAck => (parsed.status = "ack" /\ parsed.error = NoText)
            /\ (~hasAck /\ hasNak) =>
                   (parsed.status = "nak" /\ parsed.error = Msg("Device NAK response"))
            /\ (~hasAck /\ ~hasNak /\ hasErr) =>
                   /\ parsed.status = "error"
                   /\ IF \E i \in 1..Len(text) : \E j \in (i + 1)..Len(text) :
                             /\ j - i > Len(VALUEATTR)
                             /\ SubSeq(text, i, i + Len(VALUEATTR) - 1) = VALUEATTR
                             /\ <<text[j]>> = QUOTE
                             /\ <<text[i + Len(VALUEATTR)]>> # QUOTE
                      THEN /\ parsed.error.kind = "match"
                           /\ parsed.error.text # <<>>
                           /\ ~Contains(parsed.error.text, QUOTE)
                           /\ Contains(text, VALUEATTR \o parsed.error.text \o QUOTE)
                      ELSE parsed.error = NoText
            /\ (~hasAck /\ ~hasNak /\ ~hasErr /\ hasLog) =>
                   (parsed.status = "log" /\ parsed.error = NoText)
            /\ (~hasAck /\ ~hasNak /\ ~hasErr /\ ~hasLog) =>
                   (parsed.status = "unknown" /\ parsed.error = NoText)

\* a response holding both NAK and ACK, parsed as ack
C27_Witness ==
    /\ parsed # NotParsed
    /\ response = NAK \o ACK
    /\ parsed.status = "ack"

\* C28: cancellation takes effect only at the top of a per-address iteration: the
\* sweep becomes Interrupted only from the loop test, never between the send and
\* the receive of a probe nor between storing a discovery and appending its
\* line, so an interrupted sweep has appended exactly one line per entry of
\* scan_results.
C28_CancellationAtLoopTop ==
    /\ [][(outcome # "Interrupted" /\ outcome' = "Interrupted") => (pc = "loop")]_vars
    /\ [](outcome = "Interrupted" =>
            /\ Len(log_file) = Len(OldLines) + Len(scan_results)
            /\ \A j \in 1..Len(scan_results) :
                   log_file[Len(OldLines) + j] =
                       AddrText(scan_results[j].addr) \o ": " \o scan_results[j].value)

\* C29: the error-recovery state is per scan run: every scan_memory invocation,
\* also a second one on the same QFPROMExtractor, starts with an error counter
\* of 0 and no skip region.
C29_RecoveryStatePerRun ==
    pc = "prologue" =>
        /\ error_recovery.error_count = 0
        /\ error_recovery.skip_regions = <<>>

\* C30: during a run entries are inserted into scan_results in strictly
\* ascending address order, the order of the probes: every change of
\* scan_results adds one entry at the end, for the address probed last and
\* above every address already held, and leaves the entries held as they were.
C30_AscendingInsertion ==
    [][(scan_results' # scan_results) =>
          /\ Len(scan_results') = Len(scan_results) + 1
          /\ IsPrefix(scan_results, scan_results')
          /\ scan_results'[Len(scan_results')].addr = reads[Len(reads)]
          /\ \A i \in 1..Len(scan_results) :
                 scan_results[i].addr < scan_results'[Len(scan_results')].addr]_vars

\* a sweep that ended with three entries, for three ascending addresses
C30_Witness ==
    /\ pc = "done"
    /\ Len(scan_results) = 3
    /\ scan_results[1].addr < scan_results[2].addr
    /\ scan_results[2].addr < scan_results[3].addr

\* C31: on the secondary channel the delay follows every invocation of the
\* helper, also one that fails (non-zero exit, missing or short file, helper
\* timeout); a non-zero exit or a file of fewer than 4 bytes gives None; and the
\* temporary file no longer exists when the read returns.
C31_HelperDelayAndCleanup ==
    (pc = "check" /\ InSeq("secondary", events)) =>
        /\ \E i, j \in 1..Len(events) :
               i < j /\ events[i] = "secondary" /\ events[j] = "delay"
        /\ (data # None) => (result.returncode = 0 /\ Len(data) = 4)
        /\ tmp_file = None

\* the events of a native attempt that are not calls of the logger
ScanEvents(ev) == SelectSeq(ev, LAMBDA e : e \notin {"log_response", "log_error"})

\* two ends of a native attempt that differ at most in what was logged
SameButLog(r1, r2) ==
    /\ r1.er = r2.er
    /\ r1.data = r2.data
    /\ ScanEvents(r1.ev) = ScanEvents(r2.ev)

\* C32: diagnostics are independent of scan correctness. From every state a scan
\* reaches, a native attempt that gets a given answer from the device ends with
\* the same data, the same error-recovery state and the same channel events
\* whether diagnostics are on (with the log as it stands) or off (no logger, which
\* stays untouched); no other step of the scan touches the log, and a scan
\* without diagnostics never does. Two scans fed the same answers therefore go
\* through the same addresses, results and recovery states.
C32_DiagnosticsIndependent ==
    /\ [](pc \in {"py_write", "py_read"} =>
            LET er == error_recovery
                a  == current_addr
                no == SLAResponseLoggerInit
            IN  /\ \A bytes \in NativeResponses :
                       /\ SameButLog(NativeResponse(er, sla_logger, TRUE, a, bytes),
                                     NativeResponse(er, no, FALSE, a, bytes))
                       /\ NativeResponse(er, no, FALSE, a, bytes).lg = no
                /\ SameButLog(NativeTimeout(er, sla_logger, TRUE, a),
                              NativeTimeout(er, no, FALSE, a))
                /\ NativeTimeout(er, no, FALSE, a).lg = no
                /\ \A where \in {"write_exception", "read_exception"} :
                       /\ SameButLog(NativeException(er, sla_logger, TRUE, a, where),
                                     NativeException(er, no, FALSE, a, where))
                       /\ NativeException(er, no, FALSE, a, where).lg = no)
    /\ [][(sla_logger' # sla_logger) =>
             (enable_diagnostics /\ pc \in {"py_write", "py_read"})]_vars

\* a scan with diagnostics on about to receive an answer, with two errors
\* counted and logged
C32_Witness ==
    /\ enable_diagnostics
    /\ pc = "py_read"
    /\ error_recovery.error_count = 2
    /\ Len(sla_logger.errors) = 2

C34_Native04IsNeverData ==
    /\ [][(pc = "py_read" /\ data' # None) => (data'[1] # 4)]_vars
    /\ []((pc = "check" /\ data # None /\ data[1] = 4) =>
             (fallback /\ InSeq("secondary", events)))
    /\ [](\A j \in 1..Len(scan_results) :
             \E i \in 1..Len(returned) :
                 /\ returned[i].addr = scan_results[j].addr
                 /\ returned[i].data # None
                 /\ scan_results[j].value = HexValue(returned[i].data)
                 /\ (returned[i].data[1] = 4) => fallback)

\* both channels configured: the native channel answered with a 0x04 frame and
\* the word 04 00 00 01 delivered by the helper was stored
C34_Witness ==
    /\ use_pyusb /\ fallback
    /\ Len(scan_results) = 1
    /\ scan_results[1].value = "04 00 00 01"
    /\ error_recovery.last_error.code = 4

\* C35: a native response that does not start with 0x04 resets the error counter
\* to 0, also when the read then fails because fewer than 4 bytes came and also
\* when the data is the all-zero pattern the scan discards; for the short
\* response no error is logged and handle_error is not called.
C35_ResetOnAnyNon04Response ==
    /\ (pc = "py_read") =>
           \A bytes \in NativeResponses :
               (bytes[1] # 4) =>
                   LET r == NativeResponse(error_recovery, sla_logger, enable_diagnostics,
                                           current_addr, bytes)
                   IN  /\ r.er.error_count = 0
                       /\ (Len(bytes) < 4) =>
                              /\ r.data = None
                              /\ r.lg.errors = sla_logger.errors
                              /\ r.er.last_error = error_recovery.last_error
                              /\ ~InSeq("handle_error", r.ev)
                       /\ (bytes = NULL_PATTERN) => (r.data = NULL_PATTERN)
    /\ (pc \in {"fb_run", "check"} /\ InSeq("read", events)
            /\ ~InSeq("handle_error", events) /\ ~InSeq("secondary", events)) =>
           /\ error_recovery.error_count = 0
           /\ ~InSeq("log_error", events)

\* after two errors counted, a short native response: the read has failed, the
\* counter is back at 0 and the log still holds two errors
C35_Witness ==
    /\ pc = "check"
    /\ enable_diagnostics
    /\ data = None
    /\ InSeq("reset_error_count", events)
    /\ InSeq("native_failed", events)
    /\ error_recovery.last_error.count = 2
    /\ error_recovery.error_count = 0
    /\ Len(sla_logger.errors) = 2

\* positions inside _read_memory_fallback
InFallback == {"fb_run", "fb_sleep", "fb_check", "fb_remove"}

\* C36: the secondary-channel read leaves the error-recovery state and the
\* diagnostic log as they are in every outcome: no step of _read_memory_fallback,
\* failing or succeeding, changes the counter, the skip regions, the last error
\* or the logged responses and errors; with the helper as only channel they stay
\* as constructed.
C36_FallbackLeavesRecoveryAndLog ==
    /\ [][(pc \in InFallback) =>
             (error_recovery' = error_recovery /\ sla_logger' = sla_logger)]_vars
    /\ [](~use_pyusb =>
             (error_recovery = USBErrorRecoveryInit /\ sla_logger = SLAResponseLoggerInit))

\* a helper read has failed after a native 0x04 error was counted and logged:
\* the counter is still 1 and the log still holds the one error
C36_Witness ==
    /\ pc = "check"
    /\ enable_diagnostics
    /\ InSeq("secondary", events)
    /\ InSeq("delay", events)
    /\ data = None
    /\ result.returncode = 1
    /\ error_recovery.error_count = 1
    /\ Len(sla_logger.errors) = 1

\* C37: the 2-second cooldown is made in every handle_error call with code 0xff,
\* also in the calls whose incremented count is >= 3 and that return
\* skip_address, and in no call with another code.
C37_CooldownOnEveryTimeout ==
    \A i \in 1..Len(calls) :
        (calls[i].op = "handle_error") =>
            /\ (calls[i].code = 255) => (calls[i].slept = 2)
            /\ (calls[i].code # 255) => (calls[i].slept = 0)

\* the third timeout in a row is skipped after its cooldown, and a 0x04 error
\* follows without one
C37_Witness ==
    /\ Len(calls) = 4
    /\ \A i \in 1..3 : IsError(i, 255)
    /\ calls[3].action.action = "skip_address"
    /\ calls[3].slept = 2
    /\ IsError(4, 4)
    /\ calls[4].slept = 0

\* C38: every scan_memory invocation starts from an empty scan_results, so what
\* a call returns holds only addresses read by that call, while the results file
\* is never truncated and keeps the lines of all runs; a call whose start is not
\* below its end issues no read and, unless interrupted, returns an empty result
\* as Completed.
C38_ResultsPerRunFileAccumulates ==
    /\ [](pc = "prologue" => scan_results = <<>>)
    /\ [](\A j \in 1..Len(scan_results) :
             \E i \in 1..Len(reads) : reads[i] = scan_results[j].addr)
    /\ [][IsPrefix(log_file, log_file')]_vars
    /\ []((calls # <<>> /\ pc = "loop") =>
             Len(log_file) = calls[1].lines + Len(scan_results))
    /\ [](args.start_addr >= args.end_addr =>
             /\ reads = <<>>
             /\ (pc # "idle") => (scan_results = <<>>)
             /\ (pc = "done") => (outcome \in {"Completed", "Interrupted", "Raised"}))

\* the first call stored a word and wrote its line; the second call, on a range
\* whose start is above its end, has returned an empty result as Completed and
\* the file still holds the line
C38_Witness ==
    /\ calls # <<>>
    /\ calls[1].lines = Len(OldLines) + 1
    /\ args.start_addr > args.end_addr
    /\ pc = "done"
    /\ outcome = "Completed"
    /\ scan_results = <<>>
    /\ Len(log_file) = Len(OldLines) + 1

\* what went over the endpoints
Sent(what) == Cardinality({i \in 1..Len(wire) : wire[i] = what})

\* the loop has ended because a transfer raised USBError or Ctrl-C arrived
EndedByDeviceOrUser == probe_out \in {"Dropped", "Interrupted"}

\* C39: in checkSLAon.main no NOP is sent unless the loader file exists and was
\* written to the device first; a NOP is sent only when every earlier NOP has
\* its response; at the top of the loop and when main has ended otherwise than
\* by Ctrl-C the counter equals the number of NOPs that received a response;
\* and once the loop has been entered main ends only by a USBError on write or
\* read (or by Ctrl-C), never while the device answers.
C39_KeepAliveProbe ==
    /\ [](Sent("nop") > 0 => (loader_exists /\ Len(wire) > 0 /\ wire[1] = "loader"))
    /\ [][(Sent("nop")' > Sent("nop")) =>
            (Sent("nop")' = Sent("nop") + 1 /\ Sent("response") = Sent("nop"))]_vars
    /\ []((probe_pc = "nop_write" \/ (probe_pc = "done" /\ probe_out # "Interrupted")) =>
             nop_count = Sent("response"))
    /\ []((probe_pc = "done" /\ Sent("loader") > 0) => EndedByDeviceOrUser)

====
